---- MODULE Spec2Model ----
(***************************************************************************)
(* Model of the ZIP classifier of Loot-Scrapes                             *)
(* (src/src/vendor_intake/utils/zip_state_mapper.py, class ZipCodeMapper). *)
(*                                                                         *)
(* Python strings that the code inspects character by character (ZIP       *)
(* codes, state abbreviations, free text) are sequences of one-character   *)
(* strings; strings the code only copies or formats (state names, URLs)    *)
(* are TLA+ strings.  A dict whose order matters (the grouping returned by *)
(* process_zip_codes) is a sequence of <<key, value>> pairs in insertion   *)
(* order; a dict that is only looked up (the ZIP database) is a function.  *)
(***************************************************************************)
EXTENDS Integers, Sequences, FiniteSets, TLC

VARIABLES
    pc,                 \* "new" before ZipCodeMapper(...) ran, "ready" after, "raised" if it raised
    files,              \* the file system the constructor found (ghost)
    load_log,           \* the sources the constructor attempted, in order (ghost)
    zip_to_state_map,   \* self.zip_to_state_map
    zip_codes,          \* the argument of process_zip_codes
    zip_code,           \* the argument of validate_zip_code / get_state_for_zip
    states,             \* the argument of states_to_urls
    base_url,           \* the argument of states_to_urls
    returned,           \* the last call: its name, what it returned, whether it raised
    groupings,          \* the results of the process_zip_codes calls so far, in order
    crawl_pc,           \* crawl_and_save: "idle", "looping", "returned", or "raised";
                        \* "crawled" once crawl_state, called alone, returned
    output_dir,         \* PotAdvisorCrawler.output_dir
    state_mapping,      \* the argument state_mapping of crawl_and_save (an ordered dict)
    filter_zips_by_state, \* the argument filter_zips_by_state of crawl_and_save
    crawl_i,            \* the number of items of state_mapping the loop has been through
    output_files,       \* the local output_files of crawl_and_save (an ordered dict)
    site,               \* what the site answered to the last crawl_state (ghost)
    dispensaries,       \* what the last crawl_state returned
    crawl_log,          \* per attempted state: its records' number, whether its file was written (ghost)
    raw_data,           \* the argument of Scraper._normalize_vendor_data
    normalized,         \* what Scraper._normalize_vendor_data returned
    zip_input,          \* the text of the ZIP code input widget
    status_var,         \* the text of the status bar
    output_log,         \* the messages of the output log widget, in order
    dialogs,            \* the message boxes shown, in order
    threads,            \* the background crawl threads started, in order
    crawler_module,     \* what importing the crawler module gives: "untried" before the first import
    handler             \* what the last run of run_data_collection did (ghost)

mapperVars == <<pc, files, load_log, zip_to_state_map, zip_codes, zip_code,
                states, base_url, returned, groupings>>

crawlVars == <<crawl_pc, output_dir, state_mapping, filter_zips_by_state, crawl_i,
               output_files, site, dispensaries, crawl_log>>

scraperVars == <<raw_data, normalized>>

guiVars == <<zip_input, status_var, output_log, dialogs, threads, crawler_module,
             handler>>

vars == <<mapperVars, crawlVars, scraperVars, guiVars>>

(***************************************************************************)
(* Bounds of the model.                                                    *)
(***************************************************************************)
MaxRows   == 2      \* rows of a CSV file
MaxZips   == 2      \* elements of a list given to process_zip_codes
MaxPieces == 2      \* pieces a text given to process_zip_codes is made of
MaxStates == 2      \* elements of a set given to states_to_urls
MaxCalls  == 2      \* process_zip_codes calls recorded in groupings

(***************************************************************************)
(* Characters and strings.                                                 *)
(***************************************************************************)
Digits == {"0", "1", "2", "3", "4", "5", "6", "7", "8", "9"}
Upper  == {"A", "B", "C", "D", "E", "F", "G", "H", "I", "J", "K", "L", "M",
           "N", "O", "P", "Q", "R", "S", "T", "U", "V", "W", "X", "Y", "Z"}
Lower  == {"a", "b", "c", "d", "e", "f", "g", "h", "i", "j", "k", "l", "m",
           "n", "o", "p", "q", "r", "s", "t", "u", "v", "w", "x", "y", "z"}
NL     == "\n"
Spaces == {" ", NL}

\* Python's None, as a value of the string type: no string has an element
\* that is not a single character.
None == <<"None">>

\* bool(s) of an Optional[str]
Truthy(s) == s # None /\ s # <<>>

\* a or b or c
Or3(a, b, c) == IF Truthy(a) THEN a ELSE IF Truthy(b) THEN b ELSE c

\* regex \d on the model's alphabet
IsDigit(c) == c \in Digits

\* regex \w on the model's alphabet
IsWord(c) == c \in Digits \cup Upper \cup Lower \cup {"_"}

\* regex \s on the model's alphabet (str.isspace agrees there)
IsSpace(c) == c \in Spaces

\* s[i:j] for 0 <= i <= j (Python slice: indices past the end are clipped)
Slice(s, i, j) ==
    LET hi == IF j < Len(s) THEN j ELSE Len(s)
    IN  IF i >= hi THEN <<>> ELSE SubSeq(s, i + 1, hi)

\* every character of s[i:j] exists and is a digit
DigitsAt(s, i, j) == j <= Len(s) /\ \A k \in (i + 1)..j : IsDigit(s[k])

DigitVal(c) ==
    CASE c = "0" -> 0 [] c = "1" -> 1 [] c = "2" -> 2 [] c = "3" -> 3
      [] c = "4" -> 4 [] c = "5" -> 5 [] c = "6" -> 6 [] c = "7" -> 7
      [] c = "8" -> 8 [] c = "9" -> 9

DigitChar(d) ==
    CASE d = 0 -> "0" [] d = 1 -> "1" [] d = 2 -> "2" [] d = 3 -> "3"
      [] d = 4 -> "4" [] d = 5 -> "5" [] d = 6 -> "6" [] d = 7 -> "7"
      [] d = 8 -> "8" [] d = 9 -> "9"

\* str(n) for an int n >= 0: the decimal digits, no leading zero
RECURSIVE StrOfInt(_)
StrOfInt(n) ==
    IF n < 10 THEN <<DigitChar(n)>>
    ELSE Append(StrOfInt(n \div 10), DigitChar(n % 10))

\* the value of a string of decimal digits
RECURSIVE DecimalValue(_)
DecimalValue(s) ==
    IF s = <<>> THEN 0
    ELSE 10 * DecimalValue(SubSeq(s, 1, Len(s) - 1)) + DigitVal(s[Len(s)])

\* str.strip(): leading and trailing whitespace removed
RECURSIVE Strip(_)
Strip(s) ==
    IF s = <<>> THEN s
    ELSE IF IsSpace(s[1]) THEN Strip(Tail(s))
    ELSE IF IsSpace(s[Len(s)]) THEN Strip(SubSeq(s, 1, Len(s) - 1))
    ELSE s

\* str.isdigit() on the model's alphabet
IsDigitStr(s) == s # <<>> /\ \A k \in 1..Len(s) : IsDigit(s[k])

\* int(s): [ok, value], ok = FALSE standing for ValueError.  Python accepts
\* surrounding whitespace, one sign, and single underscores between digits.
IntOf(s) ==
    LET t      == Strip(s)
        signed == t # <<>> /\ t[1] \in {"+", "-"}
        body   == IF signed THEN Tail(t) ELSE t
        wellformed ==
            /\ body # <<>>
            /\ \A k \in 1..Len(body) : IsDigit(body[k]) \/ body[k] = "_"
            /\ body[1] # "_" /\ body[Len(body)] # "_"
            /\ \A k \in 1..(Len(body) - 1) : ~(body[k] = "_" /\ body[k + 1] = "_")
        digits == SelectSeq(body, IsDigit)
        mag    == DecimalValue(digits)
    IN  IF wellformed
        THEN [ok |-> TRUE, value |-> IF signed /\ t[1] = "-" THEN 0 - mag ELSE mag]
        ELSE [ok |-> FALSE, value |-> 0]

(***************************************************************************)
(* The ZIP database and its loader.                                        *)
(***************************************************************************)
ZipLen   == 5       \* \d{5}, zip_code[:5]
Plus4Len == 4       \* -\d{4}

AL == <<"A", "L">>
AK == <<"A", "K">>
AZ == <<"A", "Z">>
AR == <<"A", "R">>
WA == <<"W", "A">>

\* _create_initial_mapping: state_ranges, in the dict's order
state_ranges ==
    << <<AL, 35000, 36999>>,
       <<AK, 99500, 99999>>,
       <<AZ, 85000, 86999>>,
       <<AR, 71600, 72999>>,
       <<WA, 98000, 99499>> >>

\* {} of a Dict[str, str]
EmptyMap == [k \in {} |-> None]

\* d.get(k)
Get(d, k) == IF k \in DOMAIN d THEN d[k] ELSE None

\* d after d[k] = v
Put(d, k, v) == [x \in DOMAIN d \cup {k} |-> IF x = k THEN v ELSE d[x]]

\* The nested loop of _create_initial_mapping run on an empty dict: every
\* str(zip_code) of every range, mapped to the range's state.
RECURSIVE RangeTable(_, _)
RangeTable(m, i) ==
    IF i > Len(state_ranges) THEN m
    ELSE LET state == state_ranges[i][1]
             start == state_ranges[i][2]
             end   == state_ranges[i][3]
             keys  == {StrOfInt(n) : n \in start..end}
         IN  RangeTable([k \in DOMAIN m \cup keys |->
                            IF k \in keys THEN state ELSE m[k]], i + 1)

SynthesizedTable == RangeTable(EmptyMap, 1)

\* The ZIP bases the model's inputs mention.  zip_to_state_map is held on
\* these keys and on the keys CSV rows bring: no lookup of the model asks for
\* another key, so the other 7,394 synthesized entries cannot be observed.
Z99501 == <<"9", "9", "5", "0", "1">>       \* AK in state_ranges
Z98101 == <<"9", "8", "1", "0", "1">>       \* WA in state_ranges
Z35004 == <<"3", "5", "0", "0", "4">>       \* AL in state_ranges
Z97201 == <<"9", "7", "2", "0", "1">>       \* in no range
Z90210 == <<"9", "0", "2", "1", "0">>       \* in no range
Z00000 == <<"0", "0", "0", "0", "0">>       \* in no range, int() = 0
Watched == {Z99501, Z98101, Z35004, Z97201, Z90210, Z00000}

\* the synthesized entries on the watched keys
WatchedTable ==
    [k \in {w \in Watched : w \in DOMAIN SynthesizedTable} |-> SynthesizedTable[k]]

\* _create_initial_mapping(self): self.zip_to_state_map afterwards
\* (every synthesized entry written over what the dict held)
_create_initial_mapping(m) ==
    [k \in DOMAIN m \cup DOMAIN WatchedTable |->
        IF k \in DOMAIN WatchedTable THEN WatchedTable[k] ELSE m[k]]

\* csv.DictReader row: a dict from header to field; row.get(h)
RowGet(row, h) == IF h \in DOMAIN row THEN row[h] ELSE None

\* the loop body keeping the state of the first row that has the ZIP
LoadRow_FirstWins(m, row) ==
    LET zc == Or3(RowGet(row, "zip_code"), RowGet(row, "zipcode"), RowGet(row, "ZIP"))
        st == Or3(RowGet(row, "state"), RowGet(row, "STATE"), RowGet(row, "state_abbr"))
    IN  IF Truthy(zc) /\ Truthy(st) /\ zc \notin DOMAIN m THEN Put(m, zc, st) ELSE m

\* the loop body of _load_from_csv: the dict after one row
LoadRow(m, row) ==
    LET zc == Or3(RowGet(row, "zip_code"), RowGet(row, "zipcode"), RowGet(row, "ZIP"))
        st == Or3(RowGet(row, "state"), RowGet(row, "STATE"), RowGet(row, "state_abbr"))
    IN  IF Truthy(zc) /\ Truthy(st) THEN Put(m, zc, st) ELSE m

RECURSIVE LoadRows(_, _, _)
LoadRows(m, rows, n) ==
    IF n = 0 THEN m
    ELSE LoadRow(LoadRows(m, rows, n - 1), rows[n])

\* _load_from_csv(self, file_path).  A file is [rows, good, raises]: open()
\* or the reader raises after `good` rows were delivered (raises), or all
\* rows are read.  Returns the dict and whether the exception was re-raised
\* (line 91); the rows read before an error stay in the dict.
_load_from_csv(m, file) ==
    IF file.raises
    THEN [map |-> LoadRows(m, file.rows, file.good), raised |-> TRUE]
    ELSE [map |-> LoadRows(m, file.rows, Len(file.rows)), raised |-> FALSE]

\* _download_zip_database: logs only, and catches what logging could raise
_download_zip_database(m) == m

\* _load_zip_database without its try/except: what the body raises leaves it
LoadZipDatabase_NoCatch(fs) ==
    IF fs.path_given /\ fs.custom_exists
    THEN LET r == _load_from_csv(EmptyMap, fs.custom)
         IN  [map |-> r.map, raised |-> r.raised, log |-> <<"custom">>]
    ELSE IF fs.bundled_exists
    THEN LET r == _load_from_csv(EmptyMap, fs.bundled)
         IN  [map |-> r.map, raised |-> r.raised, log |-> <<"bundled">>]
    ELSE [map |-> _download_zip_database(_create_initial_mapping(EmptyMap)),
          raised |-> fs.makedirs_raises, log |-> <<"synthesized">>]

\* _load_zip_database that goes on to the bundled file when the custom file fails
LoadZipDatabase_Chained(fs) ==
    LET custom == IF fs.path_given /\ fs.custom_exists
                  THEN _load_from_csv(EmptyMap, fs.custom)
                  ELSE [map |-> EmptyMap, raised |-> TRUE]
        after1 == IF fs.path_given /\ fs.custom_exists THEN <<"custom">> ELSE <<>>
        bundled == IF custom.raised /\ fs.bundled_exists
                   THEN _load_from_csv(custom.map, fs.bundled)
                   ELSE custom
        after2 == IF custom.raised /\ fs.bundled_exists
                  THEN Append(after1, "bundled") ELSE after1
    IN  IF bundled.raised
        THEN [map |-> _create_initial_mapping(bundled.map), raised |-> FALSE,
              log |-> Append(after2, "synthesized")]
        ELSE [map |-> bundled.map, raised |-> FALSE, log |-> after2]

\* _load_zip_database(self) on a file system fs, self.zip_to_state_map being
\* {} (line 31).  Returns the dict, the sources used in order and whether an
\* exception left the method.
_load_zip_database(fs) ==
    LET try ==
            IF fs.path_given /\ fs.custom_exists
            THEN LET r == _load_from_csv(EmptyMap, fs.custom)
                 IN  [map |-> r.map, raised |-> r.raised, log |-> <<"custom">>]
            ELSE IF fs.bundled_exists
            THEN LET r == _load_from_csv(EmptyMap, fs.bundled)
                 IN  [map |-> r.map, raised |-> r.raised, log |-> <<"bundled">>]
            ELSE [map |-> _download_zip_database(_create_initial_mapping(EmptyMap)),
                  raised |-> fs.makedirs_raises, log |-> <<"synthesized">>]
    IN  IF try.raised
        THEN \* except Exception: fall back to the built-in mapping
             [map |-> _create_initial_mapping(try.map), raised |-> FALSE,
              log |-> Append(try.log, "synthesized")]
        ELSE try

(***************************************************************************)
(* validate_zip_code, get_state_for_zip.                                   *)
(***************************************************************************)
\* regex $ after i characters (no MULTILINE): the end of the string, or
\* just before a newline that ends the string
AtDollar(s, i) == i = Len(s) \/ (i + 1 = Len(s) /\ s[i + 1] = NL)

\* the pattern without its $: a match of the first five characters is enough
MatchesZipPattern_Prefix(s) == DigitsAt(s, 0, ZipLen)

\* re.match(r'^\d{5}(?:-\d{4})?$', s) is not None
MatchesZipPattern(s) ==
    /\ DigitsAt(s, 0, ZipLen)
    /\ \/ AtDollar(s, ZipLen)
       \/ /\ Len(s) > ZipLen
          /\ s[ZipLen + 1] = "-"
          /\ DigitsAt(s, ZipLen + 1, ZipLen + 1 + Plus4Len)
          /\ AtDollar(s, ZipLen + 1 + Plus4Len)

\* _is_in_valid_range(self, zip_base)
_is_in_valid_range(zip_base) ==
    LET zip_num == IntOf(zip_base)
    IN  IF zip_num.ok
        THEN 0 < zip_num.value /\ zip_num.value < 100000
        ELSE FALSE      \* except ValueError

\* validate_zip_code without the range test of line 152: database keys only
validate_zip_code_KeysOnly(map, s) ==
    MatchesZipPattern(s) /\ Slice(s, 0, ZipLen) \in DOMAIN map

\* validate_zip_code(self, zip_code)
validate_zip_code(map, s) ==
    IF ~MatchesZipPattern(s) THEN FALSE
    ELSE LET base_zip == Slice(s, 0, ZipLen)
         IN  base_zip \in DOMAIN map \/ _is_in_valid_range(base_zip)

\* s.split('-')[0]: s up to its first hyphen
RECURSIVE BeforeHyphen(_)
BeforeHyphen(s) ==
    IF s = <<>> \/ s[1] = "-" THEN <<>>
    ELSE <<s[1]>> \o BeforeHyphen(Tail(s))

\* get_state_for_zip without the split: the whole string is looked up
get_state_for_zip_NoSplit(map, s) == Get(map, s)

\* get_state_for_zip(self, zip_code)
get_state_for_zip(map, s) == Get(map, BeforeHyphen(s))

(***************************************************************************)
(* process_zip_codes.                                                      *)
(***************************************************************************)
\* regex \b between s[i] and s[i+1] (1-based), i in 0..Len(s)
WordBoundary(s, i) ==
    LET before == i >= 1 /\ IsWord(s[i])
        after  == i < Len(s) /\ IsWord(s[i + 1])
    IN  before # after

\* The length of the match of \b\d{5}(?:-\d{4})?\b that starts after i
\* characters of s, 0 when there is none.  The optional group is greedy: the
\* ZIP+4 form is tried first, the 5-digit form when it fails.
ZipMatchAt(s, i) ==
    IF ~(WordBoundary(s, i) /\ DigitsAt(s, i, i + ZipLen)) THEN 0
    ELSE IF /\ Len(s) > i + ZipLen
            /\ s[i + ZipLen + 1] = "-"
            /\ DigitsAt(s, i + ZipLen + 1, i + ZipLen + 1 + Plus4Len)
            /\ WordBoundary(s, i + ZipLen + 1 + Plus4Len)
         THEN ZipLen + 1 + Plus4Len
    ELSE IF WordBoundary(s, i + ZipLen) THEN ZipLen
    ELSE 0

\* re.findall(r'\b\d{5}(?:-\d{4})?\b', s): the non-overlapping matches,
\* scanning from i characters on
RECURSIVE FindAllFrom(_, _)
FindAllFrom(s, i) ==
    IF i >= Len(s) THEN <<>>
    ELSE LET n == ZipMatchAt(s, i)
         IN  IF n > 0
             THEN <<Slice(s, i, i + n)>> \o FindAllFrom(s, i + n)
             ELSE FindAllFrom(s, i + 1)

findall(s) == FindAllFrom(s, 0)

\* a character of the class [,;\s\n]
IsSeparator(c) == c \in {",", ";"} \/ IsSpace(c)

\* re.split(r'[,;\s\n]+', s): the pieces between the runs of separators,
\* empty pieces at the ends included.  cur is the piece being read and
\* in_run whether the last character was a separator.
RECURSIVE SplitFrom(_, _, _, _)
SplitFrom(s, i, cur, in_run) ==
    IF i > Len(s) THEN <<cur>>
    ELSE IF IsSeparator(s[i])
         THEN IF in_run THEN SplitFrom(s, i + 1, cur, TRUE)
              ELSE <<cur>> \o SplitFrom(s, i + 1, <<>>, TRUE)
    ELSE SplitFrom(s, i + 1, Append(cur, s[i]), FALSE)

split(s) == SplitFrom(s, 1, <<>>, FALSE)

\* [z.strip() for z in potential_zips if z.strip() and z.strip().isdigit()]
RECURSIVE DigitTokens(_)
DigitTokens(tokens) ==
    IF tokens = <<>> THEN <<>>
    ELSE LET z == Strip(Head(tokens))
         IN  IF z # <<>> /\ IsDigitStr(z)
             THEN <<z>> \o DigitTokens(Tail(tokens))
             ELSE DigitTokens(Tail(tokens))

\* zip_list with the fallback pass run after the first pass in any case
ZipList_BothPasses(arg) ==
    IF arg.kind = "str"
    THEN findall(arg.text) \o DigitTokens(split(arg.text))
    ELSE arg.list

\* An argument of process_zip_codes is [kind, text, list]: kind "str" with
\* the string in text, or kind "list" with the list of strings in list.
\* Lines 197-209: zip_list.
ZipList(arg) ==
    LET first == IF arg.kind = "str" THEN findall(arg.text) ELSE arg.list
    IN  IF first = <<>> /\ arg.kind = "str"
        THEN DigitTokens(split(arg.text))
        ELSE first

\* whether the fallback pass (lines 206-209) ran
UsedFallback(arg) == arg.kind = "str" /\ findall(arg.text) = <<>>

\* `state in result` for the ordered dict result
HasKey(result, state) == \E i \in 1..Len(result) : result[i][1] = state

\* result[state] kept free of duplicates
AppendTo_Deduplicating(result, state, z) ==
    [i \in 1..Len(result) |->
        IF result[i][1] = state /\ \A k \in 1..Len(result[i][2]) : result[i][2][k] # z
        THEN <<state, Append(result[i][2], z)>>
        ELSE result[i]]

\* result[state].append(zip_code)
AppendTo(result, state, z) ==
    [i \in 1..Len(result) |->
        IF result[i][1] = state
        THEN <<state, Append(result[i][2], z)>>
        ELSE result[i]]

\* the loop body without the validate_zip_code check of lines 217-220
ProcessOne_NoValidation(map, r, z) ==
    LET state == get_state_for_zip(map, z)
    IN  IF Truthy(state)
        THEN LET created == IF HasKey(r.result, state) THEN r.result
                            ELSE Append(r.result, <<state, <<>> >>)
             IN  [r EXCEPT !.result = AppendTo(created, state, z)]
        ELSE [r EXCEPT !.invalid_zips = Append(@, z)]

\* the loop body without the `if state:` check of line 224
ProcessOne_NoStateCheck(map, r, z) ==
    IF ~validate_zip_code(map, z)
    THEN [r EXCEPT !.invalid_zips = Append(@, z)]
    ELSE LET state == get_state_for_zip(map, z)
             created == IF HasKey(r.result, state) THEN r.result
                        ELSE Append(r.result, <<state, <<>> >>)
         IN  [r EXCEPT !.result = AppendTo(created, state, z)]

\* One pass of the loop of lines 215-230 over r = [result, invalid_zips,
\* raised] (raised: an exception left the loop; the rest is then skipped).
ProcessOne(map, r, z) ==
    IF r.raised THEN r
    ELSE IF ~validate_zip_code(map, z)
    THEN [r EXCEPT !.invalid_zips = Append(@, z)]
    ELSE LET state == get_state_for_zip(map, z)
         IN  IF Truthy(state)
             THEN LET created == IF HasKey(r.result, state) THEN r.result
                                 ELSE Append(r.result, <<state, <<>> >>)
                  IN  [r EXCEPT !.result = AppendTo(created, state, z)]
             ELSE [r EXCEPT !.invalid_zips = Append(@, z)]

RECURSIVE ProcessLoop(_, _, _)
ProcessLoop(map, zip_list, n) ==
    IF n = 0 THEN [result |-> <<>>, invalid_zips |-> <<>>, raised |-> FALSE]
    ELSE ProcessOne(map, ProcessLoop(map, zip_list, n - 1), zip_list[n])

\* process_zip_codes(self, zip_codes)
process_zip_codes(map, arg) ==
    LET zip_list == ZipList(arg)
    IN  ProcessLoop(map, zip_list, Len(zip_list))

(***************************************************************************)
(* states_to_urls.                                                         *)
(***************************************************************************)
\* state_names (lines 248-300), as its items
state_names_items ==
    { << <<"A", "L">>, "alabama">>, << <<"A", "K">>, "alaska">>,
      << <<"A", "Z">>, "arizona">>, << <<"A", "R">>, "arkansas">>,
      << <<"C", "A">>, "california">>, << <<"C", "O">>, "colorado">>,
      << <<"C", "T">>, "connecticut">>, << <<"D", "E">>, "delaware">>,
      << <<"F", "L">>, "florida">>, << <<"G", "A">>, "georgia">>,
      << <<"H", "I">>, "hawaii">>, << <<"I", "D">>, "idaho">>,
      << <<"I", "L">>, "illinois">>, << <<"I", "N">>, "indiana">>,
      << <<"I", "A">>, "iowa">>, << <<"K", "S">>, "kansas">>,
      << <<"K", "Y">>, "kentucky">>, << <<"L", "A">>, "louisiana">>,
      << <<"M", "E">>, "maine">>, << <<"M", "D">>, "maryland">>,
      << <<"M", "A">>, "massachusetts">>, << <<"M", "I">>, "michigan">>,
      << <<"M", "N">>, "minnesota">>, << <<"M", "S">>, "mississippi">>,
      << <<"M", "O">>, "missouri">>, << <<"M", "T">>, "montana">>,
      << <<"N", "E">>, "nebraska">>, << <<"N", "V">>, "nevada">>,
      << <<"N", "H">>, "new-hampshire">>, << <<"N", "J">>, "new-jersey">>,
      << <<"N", "M">>, "new-mexico">>, << <<"N", "Y">>, "new-york">>,
      << <<"N", "C">>, "north-carolina">>, << <<"N", "D">>, "north-dakota">>,
      << <<"O", "H">>, "ohio">>, << <<"O", "K">>, "oklahoma">>,
      << <<"O", "R">>, "oregon">>, << <<"P", "A">>, "pennsylvania">>,
      << <<"R", "I">>, "rhode-island">>, << <<"S", "C">>, "south-carolina">>,
      << <<"S", "D">>, "south-dakota">>, << <<"T", "N">>, "tennessee">>,
      << <<"T", "X">>, "texas">>, << <<"U", "T">>, "utah">>,
      << <<"V", "T">>, "vermont">>, << <<"V", "A">>, "virginia">>,
      << <<"W", "A">>, "washington">>, << <<"W", "V">>, "west-virginia">>,
      << <<"W", "I">>, "wisconsin">>, << <<"W", "Y">>, "wyoming">>,
      << <<"D", "C">>, "district-of-columbia">> }

state_names ==
    [code \in {it[1] : it \in state_names_items} |->
        (CHOOSE it \in state_names_items : it[1] = code)[2]]

DefaultBaseUrl == "https://potadvisor.com"

\* the URL without its first path segment for the state
StateUrl_ShortPath(base, state_name) ==
    base \o "/states/" \o state_name \o "-dispensaries/"

\* f"{base_url}/states/{state_name}/{state_name}-dispensaries/"
StateUrl(base, state_name) ==
    base \o "/states/" \o state_name \o "/" \o state_name \o "-dispensaries/"

\* states_to_urls(self, states, base_url): the dict urls, as a function;
\* the states without a name are only logged
states_to_urls(state_set, base) ==
    [state \in {st \in state_set : st \in DOMAIN state_names} |->
        <<StateUrl(base, state_names[state]), state_names[state]>>]

(***************************************************************************)
(* The inputs of the model.                                                *)
(***************************************************************************)
OR == <<"O", "R">>
CA == <<"C", "A">>
NV == <<"N", "V">>
ZZ == <<"Z", "Z">>

\* all sequences over S of length at most n
SeqsUpTo(S, n) == UNION {[1..k -> S] : k \in 0..n}

\* the concatenation of a sequence of strings
RECURSIVE Concat(_)
Concat(ss) == IF ss = <<>> THEN <<>> ELSE Head(ss) \o Concat(Tail(ss))

Plus4 == <<"-", "1", "2", "3", "4">>

\* the DictReader row with the given headers and fields
Row(headers, fields) ==
    [h \in {headers[i] : i \in 1..Len(headers)} |->
        fields[CHOOSE i \in 1..Len(headers) : headers[i] = h]]

\* Rows of the custom CSV file: the header spellings of lines 82-83, a ZIP
\* listed twice, an empty first spelling, a missing state, two spellings
\* filled at once, a key that is no ZIP.
CustomRows ==
    { Row(<<"zip_code", "state">>, <<Z97201, OR>>),
      Row(<<"zipcode", "STATE">>, <<Z99501, WA>>),
      Row(<<"ZIP", "state_abbr">>, <<Z97201, CA>>),
      Row(<<"zip_code", "zipcode", "state">>, <<(<<>>), Z90210, CA>>),
      Row(<<"zip_code">>, <<Z00000>>),
      Row(<<"zip_code", "ZIP", "STATE", "state_abbr">>, <<Z90210, Z97201, NV, CA>>),
      Row(<<"ZIP", "state">>, <<(<<"9", "9", "5">>), (<<"w", "a">>)>>) }

\* Rows of the bundled CSV file; no row of one source equals one of another.
BundledRows ==
    { Row(<<"zip_code", "state">>, <<Z90210, NV>>),
      Row(<<"zip_code", "state">>, <<Z98101, OR>>) }

\* the files whose rows are in R: read to the end, or raising after `good` rows
CsvFiles(R) ==
    UNION { {[rows |-> rs, good |-> Len(rs), raises |-> FALSE]}
            \cup {[rows |-> rs, good |-> g, raises |-> TRUE] : g \in 0..Len(rs)}
          : rs \in SeqsUpTo(R, MaxRows) }

\* a path at which there is no file
NoFile == [rows |-> <<>>, good |-> 0, raises |-> TRUE]

\* The file systems a constructor can find.  custom_exists is
\* os.path.exists(zip_database_path), bundled_exists that of the bundled
\* data/zip_code_database.csv, makedirs_raises whether os.makedirs fails.
\* Beside a custom file that is opened, the bundled file is never opened:
\* it is absent or there, and whether reading it would fail does not matter.
Envs ==
    { [path_given |-> TRUE, custom_exists |-> TRUE, custom |-> c,
       bundled_exists |-> b # NoFile, bundled |-> b, makedirs_raises |-> FALSE]
      : c \in CsvFiles(CustomRows),
        b \in {f \in CsvFiles(BundledRows) : ~f.raises} \cup {NoFile} }
    \cup
    { [path_given |-> g, custom_exists |-> FALSE, custom |-> NoFile,
       bundled_exists |-> TRUE, bundled |-> b, makedirs_raises |-> FALSE]
      : g \in BOOLEAN, b \in CsvFiles(BundledRows) }
    \cup
    { [path_given |-> g, custom_exists |-> FALSE, custom |-> NoFile,
       bundled_exists |-> FALSE, bundled |-> NoFile, makedirs_raises |-> r]
      : g \in BOOLEAN, r \in BOOLEAN }

FileOf(rs) == [rows |-> rs, good |-> Len(rs), raises |-> FALSE]
FailingAfter(rs, g) == [rows |-> rs, good |-> g, raises |-> TRUE]

CustomSample ==
    << Row(<<"zip_code", "state">>, <<Z97201, OR>>),
       Row(<<"zipcode", "STATE">>, <<Z99501, WA>>) >>
BundledSample ==
    << Row(<<"zip_code", "state">>, <<Z90210, NV>>),
       Row(<<"zip_code", "state">>, <<Z98101, OR>>) >>

\* The file systems the calls are checked on: no file at all, a custom file,
\* a custom file that fails after its first row, a bundled file.
SampleEnvs ==
    { [path_given |-> FALSE, custom_exists |-> FALSE, custom |-> NoFile,
       bundled_exists |-> FALSE, bundled |-> NoFile, makedirs_raises |-> FALSE],
      [path_given |-> TRUE, custom_exists |-> TRUE, custom |-> FileOf(CustomSample),
       bundled_exists |-> FALSE, bundled |-> NoFile, makedirs_raises |-> FALSE],
      [path_given |-> TRUE, custom_exists |-> TRUE,
       custom |-> FailingAfter(CustomSample, 1),
       bundled_exists |-> TRUE, bundled |-> FileOf(BundledSample),
       makedirs_raises |-> FALSE],
      [path_given |-> FALSE, custom_exists |-> FALSE, custom |-> NoFile,
       bundled_exists |-> TRUE, bundled |-> FileOf(BundledSample),
       makedirs_raises |-> FALSE] }

\* The strings given to validate_zip_code and get_state_for_zip: each base
\* alone, with a +4 suffix, with a trailing newline, and malformed around it.
ZipBasesTried ==
    Watched \cup {<<"1", "2", "3", "4", "5">>, <<"9", "9", "5">>,
                  <<"a", "b", "c", "1", "2">>}
ZipStrings ==
    {<<>>} \cup
    UNION { { b, b \o Plus4, b \o <<NL>>, b \o Plus4 \o <<NL>>, b \o <<NL, NL>>,
              b \o <<"-", "1", "2">>, b \o <<"6">>, b \o Plus4 \o <<"5">>,
              <<" ">> \o b, b \o <<"x">>, b \o <<"-">> }
          : b \in ZipBasesTried }

\* the elements of the lists given to process_zip_codes
ListZips ==
    { Z99501, Z99501 \o Plus4, Z98101, Z97201, Z00000,
      Z99501 \o <<NL>>, Z99501 \o Plus4 \o <<NL>>, Z99501 \o <<"-", "1", "2">>,
      <<"a", "b", "c", "1", "2">>, <<"1", "2", "3", "4", "5", "6">> }

\* the pieces the texts given to process_zip_codes are made of
Pieces ==
    { Z99501, Z99501 \o <<",", " ">>, Z98101 \o Plus4 \o <<" ">>,
      Z97201 \o <<";">>, <<"1", "2", "3", " ">>, <<"-">>, <<"x">>,
      <<"n", "o", "t", " ", "a", " ", "z", "i", "p">> }

Texts == {Concat(ps) : ps \in SeqsUpTo(Pieces, MaxPieces)}

Inputs ==
    {[kind |-> "str", text |-> t, list |-> <<>>] : t \in Texts}
    \cup {[kind |-> "list", text |-> <<>>, list |-> l] : l \in SeqsUpTo(ListZips, MaxZips)}

\* the state codes given to states_to_urls: the 51 of state_names, and
\* codes that are none of them
UnknownCodes == {ZZ, <<"w", "a">>, <<"W">>, <<>>}
StateCodes == DOMAIN state_names \cup UnknownCodes

\* the codes the sets of several states are made of
SampleCodes == {WA, AK, <<"N", "H">>, <<"D", "C">>} \cup UnknownCodes

\* the sets of at most n elements of S
RECURSIVE SetsUpTo(_, _)
SetsUpTo(S, n) ==
    IF n = 0 THEN {{}}
    ELSE LET smaller == SetsUpTo(S, n - 1)
         IN  smaller \cup {T \cup {x} : T \in smaller, x \in S}

\* every code alone, and the sets of at most MaxStates sample codes
StateSets == {{c} : c \in StateCodes} \cup SetsUpTo(SampleCodes, MaxStates)

BaseUrls == {DefaultBaseUrl, "http://localhost:8000"}

(***************************************************************************)
(* The state machine.                                                      *)
(***************************************************************************)
NoCall == [op |-> "none", value |-> <<>>, raised |-> FALSE]

DefaultZipCodes == [kind |-> "list", text |-> <<>>, list |-> <<Z99501, Z99501>>]

\* no answer of the site yet
NoSite == [kind |-> "none", pages |-> <<>>]

\* no PotAdvisorCrawler in use
CrawlerIdle ==
    /\ crawl_pc = "idle"
    /\ output_dir = <<>>
    /\ state_mapping = <<>>
    /\ filter_zips_by_state = <<>>
    /\ crawl_i = 0
    /\ output_files = <<>>
    /\ site = NoSite
    /\ dispensaries = <<>>
    /\ crawl_log = <<>>

\* no Scraper in use
ScraperIdle ==
    /\ raw_data = <<>>
    /\ normalized = <<>>

\* no handler of the GUI has run: what the last handler or thread step did,
\* and the number of Run clicks so far
NoHandler == [op |-> "none", n |-> 0, called_process |-> FALSE,
              generated_urls |-> FALSE, started_thread |-> FALSE,
              raised |-> FALSE, propagated |-> FALSE]

\* no window
GuiIdle ==
    /\ zip_input = <<>>
    /\ status_var = ""
    /\ output_log = <<>>
    /\ dialogs = <<>>
    /\ threads = <<>>
    /\ crawler_module = "untried"
    /\ handler = NoHandler

\* before ZipCodeMapper(...): nothing loaded, nothing called
Fresh ==
    /\ pc = "new"
    /\ files = NoFile
    /\ load_log = <<>>
    /\ zip_to_state_map = EmptyMap
    /\ returned = NoCall
    /\ groupings = <<>>
    /\ CrawlerIdle
    /\ ScraperIdle
    /\ GuiIdle

\* the argument of process_zip_codes varies
Init ==
    /\ Fresh
    /\ zip_codes \in Inputs
    /\ zip_code = Z99501
    /\ states = {WA}
    /\ base_url = DefaultBaseUrl

\* the argument of validate_zip_code and get_state_for_zip varies
InitZip ==
    /\ Fresh
    /\ zip_codes = DefaultZipCodes
    /\ zip_code \in ZipStrings
    /\ states = {WA}
    /\ base_url = DefaultBaseUrl

\* the arguments of states_to_urls vary
InitUrls ==
    /\ Fresh
    /\ zip_codes = DefaultZipCodes
    /\ zip_code = Z99501
    /\ states \in StateSets
    /\ base_url \in BaseUrls

\* the file system varies
InitLoad ==
    /\ Fresh
    /\ zip_codes = DefaultZipCodes
    /\ zip_code = Z99501
    /\ states = {WA}
    /\ base_url = DefaultBaseUrl

\* ZipCodeMapper.__init__ (lines 23-33) on a file system of E
Construct(E) ==
    /\ pc = "new"
    /\ \E fs \in E :
         LET r == _load_zip_database(fs)
         IN  /\ files' = fs
             /\ zip_to_state_map' = r.map
             /\ load_log' = r.log
             /\ pc' = IF r.raised THEN "raised" ELSE "ready"
    /\ UNCHANGED <<zip_codes, zip_code, states, base_url, returned, groupings>>
    /\ UNCHANGED <<crawlVars, scraperVars, guiVars>>

ConstructSample == Construct(SampleEnvs)

ConstructAny == Construct(Envs)

\* a call of validate_zip_code(zip_code)
ValidateZipCode ==
    /\ pc = "ready"
    /\ returned' = [op |-> "validate_zip_code",
                    value |-> validate_zip_code(zip_to_state_map, zip_code),
                    raised |-> FALSE]
    /\ UNCHANGED <<pc, files, load_log, zip_to_state_map, zip_codes, zip_code,
                   states, base_url, groupings>>
    /\ UNCHANGED <<crawlVars, scraperVars, guiVars>>

\* a call of get_state_for_zip(zip_code)
GetStateForZip ==
    /\ pc = "ready"
    /\ returned' = [op |-> "get_state_for_zip",
                    value |-> get_state_for_zip(zip_to_state_map, zip_code),
                    raised |-> FALSE]
    /\ UNCHANGED <<pc, files, load_log, zip_to_state_map, zip_codes, zip_code,
                   states, base_url, groupings>>
    /\ UNCHANGED <<crawlVars, scraperVars, guiVars>>

\* process_zip_codes over a dict that records the bases it missed, as a
\* defaultdict would
ProcessZipCodes_RecordingMisses ==
    /\ pc = "ready"
    /\ Len(groupings) < MaxCalls
    /\ LET r == process_zip_codes(zip_to_state_map, zip_codes)
           missed == {BeforeHyphen(z) : z \in {r.invalid_zips[i] : i \in 1..Len(r.invalid_zips)}}
       IN  /\ returned' = [op |-> "process_zip_codes", value |-> r.result,
                           raised |-> r.raised]
           /\ groupings' = Append(groupings, r.result)
           /\ zip_to_state_map' =
                 [k \in DOMAIN zip_to_state_map \cup missed |->
                     IF k \in DOMAIN zip_to_state_map THEN zip_to_state_map[k] ELSE <<>>]
    /\ UNCHANGED <<pc, files, load_log, zip_codes, zip_code, states, base_url>>
    /\ UNCHANGED <<crawlVars, scraperVars, guiVars>>

\* a call of process_zip_codes(zip_codes)
ProcessZipCodes ==
    /\ pc = "ready"
    /\ Len(groupings) < MaxCalls
    /\ LET r == process_zip_codes(zip_to_state_map, zip_codes)
       IN  /\ returned' = [op |-> "process_zip_codes", value |-> r.result,
                           raised |-> r.raised]
           /\ groupings' = Append(groupings, r.result)
    /\ UNCHANGED <<pc, files, load_log, zip_to_state_map, zip_codes, zip_code,
                   states, base_url>>
    /\ UNCHANGED <<crawlVars, scraperVars, guiVars>>

\* a call of states_to_urls(states, base_url)
StatesToUrls ==
    /\ pc = "ready"
    /\ returned' = [op |-> "states_to_urls",
                    value |-> states_to_urls(states, base_url),
                    raised |-> FALSE]
    /\ UNCHANGED <<pc, files, load_log, zip_to_state_map, zip_codes, zip_code,
                   states, base_url, groupings>>
    /\ UNCHANGED <<crawlVars, scraperVars, guiVars>>

Next ==
    \/ ConstructSample
    \/ ValidateZipCode
    \/ GetStateForZip
    \/ ProcessZipCodes
    \/ StatesToUrls

\* states_to_urls alone, on two of the databases
UrlEnvs == {fs \in SampleEnvs : ~fs.bundled_exists}

ConstructForUrls == Construct(UrlEnvs)

NextUrls == ConstructForUrls \/ StatesToUrls

NextLoad == ConstructAny

Spec     == Init /\ [][Next]_vars
SpecZip  == InitZip /\ [][Next]_vars
SpecUrls == InitUrls /\ [][NextUrls]_vars
SpecLoad == InitLoad /\ [][NextLoad]_vars

(***************************************************************************)
(* Claims about process_zip_codes (specification Spec).                    *)
(***************************************************************************)
\* the elements of a sequence
Elems(seq) == {seq[i] : i \in 1..Len(seq)}

\* the candidates of the call: zip_list of lines 197-209
Candidates == ZipList(zip_codes)

\* the ZIP codes a grouping holds under a state, <<>> when the state is no key
GroupOf(result, state) ==
    IF \E i \in 1..Len(result) : result[i][1] = state
    THEN result[CHOOSE i \in 1..Len(result) : result[i][1] = state][2]
    ELSE <<>>

\* the keys of a grouping
KeysOf(result) == {result[i][1] : i \in 1..Len(result)}

\* process_zip_codes has just returned
Processed == returned.op = "process_zip_codes"

\* the candidate passes validate_zip_code and get_state_for_zip gives it a state
Passes(z) ==
    /\ validate_zip_code(zip_to_state_map, z)
    /\ get_state_for_zip(zip_to_state_map, z) # None

\* get_state_for_zip gives the candidate a state
Resolves(z) == get_state_for_zip(zip_to_state_map, z) # None

\* C1 (amended): the grouping returned by process_zip_codes holds exactly the
\* candidates that pass validate_zip_code and that get_state_for_zip gives a
\* state: each under that state and under no other key, and nothing else
\* under any key.  When every candidate passes validation and resolves, all
\* candidates are present across the groups.
C1_GroupingHoldsExactlyPassing ==
    Processed =>
        /\ \A z \in Elems(Candidates) : \A st \in KeysOf(returned.value) \cup
                {get_state_for_zip(zip_to_state_map, z)} :
              (z \in Elems(GroupOf(returned.value, st)))
                <=> (Passes(z) /\ st = get_state_for_zip(zip_to_state_map, z))
        /\ \A st \in KeysOf(returned.value) :
              /\ st # None
              /\ Elems(GroupOf(returned.value, st)) \subseteq Elems(Candidates)
        /\ (\A z \in Elems(Candidates) : Passes(z)) =>
              \A z \in Elems(Candidates) :
                 \E st \in KeysOf(returned.value) :
                    z \in Elems(GroupOf(returned.value, st))

\* C1 as stated: when every candidate resolves in the database, all
\* candidates are present across the returned groups.
C1_AllResolvingPresent ==
    (Processed /\ \A z \in Elems(Candidates) : Resolves(z)) =>
        \A z \in Elems(Candidates) :
           \E st \in KeysOf(returned.value) :
              z \in Elems(GroupOf(returned.value, st))

\* C1 witness: a call that kept one candidate and dropped another that
\* resolves to a state but fails validation.
C1_Witness ==
    /\ Processed
    /\ \E z \in Elems(Candidates) : Passes(z)
    /\ \E z \in Elems(Candidates) :
          Resolves(z) /\ ~validate_zip_code(zip_to_state_map, z)

\* the subsequence of the candidates that resolve to the state
RECURSIVE ResolvingTo(_, _)
ResolvingTo(cands, st) ==
    IF cands = <<>> THEN <<>>
    ELSE IF Passes(Head(cands)) /\ get_state_for_zip(zip_to_state_map, Head(cands)) = st
         THEN <<Head(cands)>> \o ResolvingTo(Tail(cands), st)
         ELSE ResolvingTo(Tail(cands), st)

C5_NeverRaisesEmptyWhenNoneValid ==
    Processed =>
        /\ ~returned.raised
        /\ (\A z \in Elems(Candidates) : ~Passes(z)) => returned.value = <<>>
        /\ Candidates = <<>> => returned.value = <<>>
        /\ \A z \in Elems(Candidates) :
              ~Passes(z) =>
                 \A i \in 1..Len(returned.value) : z \notin Elems(returned.value[i][2])
        /\ \A i \in 1..Len(returned.value) : returned.value[i][1] # None

\* C5 witness: a call on candidates that are all invalid or unresolvable.
C5_Witness ==
    /\ Processed
    /\ Candidates # <<>>
    /\ \E z \in Elems(Candidates) : ~validate_zip_code(zip_to_state_map, z)
    /\ \E z \in Elems(Candidates) :
          validate_zip_code(zip_to_state_map, z) /\ ~Resolves(z)
    /\ returned.value = <<>>

\* C6: after construction no call of validate_zip_code, get_state_for_zip,
\* process_zip_codes or states_to_urls changes the ZIP database, and the
\* calls of process_zip_codes on the same input, whatever was called in
\* between, return identical groupings: the same keys in the same order and
\* the same ZIP sequence per key.
C6_DatabaseFixedGroupingsRepeat ==
    /\ [][pc = "ready" => zip_to_state_map' = zip_to_state_map]_vars
    /\ [](\A i, j \in 1..Len(groupings) : groupings[i] = groupings[j])

\* C6 witness: process_zip_codes was called twice, with a non-empty result,
\* and another method after it.
C6_Witness ==
    /\ Len(groupings) >= 2
    /\ groupings[1] # <<>>
    /\ returned.op \in {"validate_zip_code", "get_state_for_zip", "states_to_urls"}

(***************************************************************************)
(* Claims about validate_zip_code and get_state_for_zip (SpecZip).         *)
(***************************************************************************)
\* exactly 5 digits, or exactly 5 digits, a hyphen and 4 digits
ExactZipFormat(s) ==
    \/ /\ Len(s) = ZipLen
       /\ \A k \in 1..ZipLen : s[k] \in Digits
    \/ /\ Len(s) = ZipLen + 1 + Plus4Len
       /\ \A k \in 1..ZipLen : s[k] \in Digits
       /\ s[ZipLen + 1] = "-"
       /\ \A k \in (ZipLen + 2)..(ZipLen + 1 + Plus4Len) : s[k] \in Digits

\* the first five characters
BaseOf(s) == SubSeq(s, 1, ZipLen)

\* C3: validate_zip_code(code) is true only if code is exactly 5 digits, or
\* exactly 5 digits, a hyphen and 4 digits, with nothing before or after,
\* and its 5-digit base is a key of the database or lies strictly between 0
\* and 100000; it is false for every other string.
C3_ValidOnlyExactFormat ==
    returned.op = "validate_zip_code" =>
        (returned.value <=>
            /\ ExactZipFormat(zip_code)
            /\ \/ BaseOf(zip_code) \in DOMAIN zip_to_state_map
               \/ /\ 0 < DecimalValue(BaseOf(zip_code))
                  /\ DecimalValue(BaseOf(zip_code)) < 100000)

\* s is k alone, or k followed by a hyphen and anything
IsKeyOrKeyHyphen(s, k) ==
    /\ Len(k) <= Len(s)
    /\ SubSeq(s, 1, Len(k)) = k
    /\ \A i \in 1..Len(k) : k[i] # "-"
    /\ Len(s) = Len(k) \/ s[Len(k) + 1] = "-"

\* C4: get_state_for_zip is a lookup of the ZIP base: a 5-digit string that
\* is a key gives exactly its state; a ZIP+4 string z-dddd gives what z
\* gives; and whenever the base is no key the result is None.
C4_LookupOnBase ==
    returned.op = "get_state_for_zip" =>
        /\ (Len(zip_code) = ZipLen /\ ExactZipFormat(zip_code)
              /\ zip_code \in DOMAIN zip_to_state_map)
            => returned.value = zip_to_state_map[zip_code]
        /\ ExactZipFormat(zip_code) =>
              returned.value = IF BaseOf(zip_code) \in DOMAIN zip_to_state_map
                               THEN zip_to_state_map[BaseOf(zip_code)]
                               ELSE None
        /\ returned.value # None =>
              \E k \in DOMAIN zip_to_state_map :
                 IsKeyOrKeyHyphen(zip_code, k) /\ returned.value = zip_to_state_map[k]

\* C4 witness: a ZIP+4 string whose base is a key was looked up.
C4_Witness ==
    /\ returned.op = "get_state_for_zip"
    /\ zip_code = Z99501 \o Plus4
    /\ returned.value = AK

(***************************************************************************)
(* Claims about states_to_urls (SpecUrls).                                 *)
(***************************************************************************)
\* two uppercase letters
IsStateCode(c) == Len(c) = 2 /\ c[1] \in Upper /\ c[2] \in Upper

\* C7: whatever the database, states_to_urls returns a mapping whose keys
\* are exactly the given codes that are among the 51 known ones (exact
\* uppercase match), each mapped to the pair
\* ("{base_url}/states/{name}/{name}-dispensaries/", name); unknown codes
\* are absent and nothing is raised.
C7_UrlsForKnownCodes ==
    /\ Cardinality(DOMAIN state_names) = 51
    /\ \A c \in DOMAIN state_names : IsStateCode(c)
    /\ returned.op = "states_to_urls" =>
          /\ ~returned.raised
          /\ DOMAIN returned.value = states \cap DOMAIN state_names
          /\ \A c \in DOMAIN returned.value :
                LET name == state_names[c]
                IN  returned.value[c] =
                       << base_url \o "/states/" \o name \o "/" \o name
                              \o "-dispensaries/", name >>
          /\ (WA \in states /\ base_url = "https://potadvisor.com") =>
                returned.value[WA] =
                   << "https://potadvisor.com/states/washington/washington-dispensaries/",
                      "washington" >>
          /\ (<<"N", "H">> \in states /\ base_url = "https://potadvisor.com") =>
                returned.value[<<"N", "H">>] =
                   << "https://potadvisor.com/states/new-hampshire/new-hampshire-dispensaries/",
                      "new-hampshire" >>

\* C7 witness: a known and an unknown code were given, and only the known
\* one came back.
C7_Witness ==
    /\ returned.op = "states_to_urls"
    /\ states = {WA, ZZ}
    /\ DOMAIN returned.value = {WA}

(***************************************************************************)
(* Claims about the construction (SpecLoad).                               *)
(***************************************************************************)
\* the custom file is the one the constructor opens
CustomTried == files.path_given /\ files.custom_exists

\* the bundled file is the one the constructor opens
BundledTried == ~CustomTried /\ files.bundled_exists

\* something failed on the way: the CSV load that was tried, or os.makedirs
LoadFailed ==
    \/ CustomTried /\ files.custom.raises
    \/ BundledTried /\ files.bundled.raises
    \/ ~CustomTried /\ ~BundledTried /\ files.makedirs_raises

\* every synthesized entry (on the watched keys) is in the database
HoldsSynthesized ==
    \A k \in DOMAIN WatchedTable :
        k \in DOMAIN zip_to_state_map /\ zip_to_state_map[k] = WatchedTable[k]

RowEntries(rows) ==
    { << Or3(RowGet(rows[i], "zip_code"), RowGet(rows[i], "zipcode"), RowGet(rows[i], "ZIP")),
         Or3(RowGet(rows[i], "state"), RowGet(rows[i], "STATE"), RowGet(rows[i], "state_abbr")) >>
      : i \in 1..Len(rows) }

\* C10: after construction the database is populated from exactly one
\* source: its entries are all rows of the custom file, or all rows of the
\* bundled file, or all synthesized range entries, also when a CSV load
\* failed after some rows were read.
C10_PopulatedFromOneSource ==
    pc = "ready" =>
        \/ \A k \in DOMAIN zip_to_state_map :
              <<k, zip_to_state_map[k]>> \in RowEntries(files.custom.rows)
        \/ \A k \in DOMAIN zip_to_state_map :
              <<k, zip_to_state_map[k]>> \in RowEntries(files.bundled.rows)
        \/ \A k \in DOMAIN zip_to_state_map :
              k \in DOMAIN WatchedTable /\ zip_to_state_map[k] = WatchedTable[k]

(***************************************************************************)
(* Claims about ZIP codes the database does not know (Spec).               *)
(***************************************************************************)
\* a well-formed 5-digit ZIP with a value between 00001 and 99999 that is no
\* key of the database
UnknownWellFormed(z) ==
    /\ Len(z) = ZipLen
    /\ \A k \in 1..ZipLen : z[k] \in Digits
    /\ 0 < DecimalValue(z) /\ DecimalValue(z) < 100000
    /\ z \notin DOMAIN zip_to_state_map

\* C11: every well-formed 5-digit ZIP with a value between 00001 and 99999
\* that is no key of the loaded database passes validate_zip_code, resolves
\* to no state in get_state_for_zip, and is discarded by process_zip_codes:
\* no exception, and the ZIP under no key of the output (97201 under the
\* synthesized table).
C11_UnknownZipPassesAndIsDiscarded ==
    Processed =>
        /\ ~returned.raised
        /\ \A z \in Elems(Candidates) :
              UnknownWellFormed(z) =>
                 /\ validate_zip_code(zip_to_state_map, z)
                 /\ get_state_for_zip(zip_to_state_map, z) = None
                 /\ \A i \in 1..Len(returned.value) :
                       z \notin Elems(returned.value[i][2])
        /\ (Z97201 \in Elems(Candidates) /\ load_log = <<"synthesized">>) =>
              UnknownWellFormed(Z97201)

\* C11 witness: under the synthesized table, a call whose candidates hold
\* 97201 beside a ZIP that is a key, and only the key came back.
C11_Witness ==
    /\ Processed
    /\ load_log = <<"synthesized">>
    /\ Z97201 \in Elems(Candidates)
    /\ UnknownWellFormed(Z97201)
    /\ returned.value # <<>>
    /\ \A i \in 1..Len(returned.value) : Z97201 \notin Elems(returned.value[i][2])

(***************************************************************************)
(* The crawler                                                             *)
(* (src/src/scrapers/crawl4ai_integration/potadvisor_crawler.py, class     *)
(* PotAdvisorCrawler).  A listing or a record is a Python dict: a function *)
(* from its keys to its values.  What the site answers is the environment: *)
(* the outcome of the listing fetch and, per listing, of its detail fetch. *)
(***************************************************************************)
MaxListings == 2    \* listings of a state's page
MaxMapping  == 2    \* items of state_mapping

\* a JSON value that is a number and not a string
JsonNumber == <<"number">>

\* isinstance(v, str) for a JSON value of the model
IsStr(v) == v # None /\ v # JsonNumber

\* d.get(k, default)
DictGet(d, k, default) == IF k \in DOMAIN d THEN d[k] ELSE default

\* d after d.update(e); {**d, **e}
Update(d, e) == [k \in DOMAIN d \cup DOMAIN e |-> IF k \in DOMAIN e THEN e[k] ELSE d[k]]

\* the elements of a list, as set(list) gives them
SetOf(list) == {list[i] : i \in 1..Len(list)}

UpperSeq == <<"A", "B", "C", "D", "E", "F", "G", "H", "I", "J", "K", "L", "M",
              "N", "O", "P", "Q", "R", "S", "T", "U", "V", "W", "X", "Y", "Z">>
LowerSeq == <<"a", "b", "c", "d", "e", "f", "g", "h", "i", "j", "k", "l", "m",
              "n", "o", "p", "q", "r", "s", "t", "u", "v", "w", "x", "y", "z">>

\* str.lower() on the model's alphabet
lower(s) ==
    [i \in 1..Len(s) |->
        IF s[i] \in Upper
        THEN LowerSeq[CHOOSE k \in 1..Len(UpperSeq) : UpperSeq[k] = s[i]]
        ELSE s[i]]

\* os.path.join(a, b) of posixpath
os_path_join(a, b) ==
    IF b # <<>> /\ b[1] = "/" THEN b
    ELSE IF a = <<>> \/ a[Len(a)] = "/" THEN a \o b
    ELSE a \o <<"/">> \o b

\* "_dispensaries.json" (line 284)
DispensariesSuffix ==
    <<"_", "d", "i", "s", "p", "e", "n", "s", "a", "r", "i", "e", "s",
      ".", "j", "s", "o", "n">>

\* extract_zip_from_address that takes the last match of the ZIP pattern
extract_zip_from_address_LastMatch(address) ==
    IF ~IsStr(address) THEN [raised |-> TRUE, value |-> None]
    ELSE LET found == findall(address)
         IN  [raised |-> FALSE,
              value |-> IF found = <<>> THEN None ELSE found[Len(found)]]

\* extract_zip_from_address(self, address): re.search of the ZIP pattern,
\* its first match or None; re.search raises TypeError when address is no str
extract_zip_from_address(address) ==
    IF ~IsStr(address) THEN [raised |-> TRUE, value |-> None]
    ELSE LET found == findall(address)
         IN  [raised |-> FALSE,
              value |-> IF found = <<>> THEN None ELSE found[1]]

\* Lines 191-202: the listings kept by the ZIP filter, each with the
\* zip_code extracted from its address, and whether an exception left the
\* loop.  A page is [listing, detail]: a listing and what its detail fetch
\* will answer.
RECURSIVE FilterListings(_, _, _)
FilterListings(pages, n, filter_zip_codes) ==
    IF n = 0 THEN [filtered |-> <<>>, raised |-> FALSE]
    ELSE LET before  == FilterListings(pages, n - 1, filter_zip_codes)
             listing == pages[n].listing
             address == DictGet(listing, "address", <<>>)
             zc      == extract_zip_from_address(address)
             marked  == IF Truthy(zc.value) THEN Put(listing, "zip_code", zc.value)
                        ELSE listing
             keep    == \/ filter_zip_codes = {}
                        \/ Truthy(zc.value) /\ zc.value \in filter_zip_codes
         IN  IF before.raised THEN before
             ELSE IF zc.raised THEN [before EXCEPT !.raised = TRUE]
             ELSE IF keep
             THEN [before EXCEPT !.filtered =
                      Append(@, [listing |-> marked, detail |-> pages[n].detail])]
             ELSE before

\* the loop body of lines 213-246 that drops the listing whose detail fetch
\* did not succeed
DetailOne_DroppingFailures(r, page) ==
    LET listing    == page.listing
        detail_url == DictGet(listing, "url", None)
    IN  IF r.raised THEN r
        ELSE IF ~Truthy(detail_url)
        THEN [r EXCEPT !.dispensaries = Append(@, listing)]
        ELSE IF ~IsStr(detail_url) THEN [r EXCEPT !.raised = TRUE]
        ELSE IF page.detail.kind = "ok"
        THEN [r EXCEPT !.dispensaries =
                 Append(@, IF page.detail.data # <<>>
                           THEN Update(listing, page.detail.data[1])
                           ELSE listing)]
        ELSE r

\* The loop body of lines 213-246 for one filtered listing: r is
\* [dispensaries, raised].  A detail fetch answers "ok" with its records,
\* "failed" (success is False), "raises" (arun raises) or "unparsable"
\* (json.loads raises); the last two are caught at line 241.  A url that is
\* no string raises at line 219, outside that try.
DetailOne(r, page) ==
    LET listing    == page.listing
        detail_url == DictGet(listing, "url", None)
    IN  IF r.raised THEN r
        ELSE IF ~Truthy(detail_url)
        THEN [r EXCEPT !.dispensaries = Append(@, listing)]
        ELSE IF ~IsStr(detail_url) THEN [r EXCEPT !.raised = TRUE]
        ELSE IF page.detail.kind = "ok"
        THEN [r EXCEPT !.dispensaries =
                 Append(@, IF page.detail.data # <<>>
                           THEN Update(listing, page.detail.data[1])
                           ELSE listing)]
        ELSE [r EXCEPT !.dispensaries = Append(@, listing)]

RECURSIVE DetailLoop(_, _)
DetailLoop(filtered, n) ==
    IF n = 0 THEN [dispensaries |-> <<>>, raised |-> FALSE]
    ELSE DetailOne(DetailLoop(filtered, n - 1), filtered[n])

\* The try block of crawl_state (lines 174-250) on what the site answers.
\* The listing fetch answers "raises" (arun or the browser raises),
\* "failed" (success is False), "unparsable" (JSONDecodeError, caught at
\* line 247), "no_content" (extracted_content is None: TypeError) or "ok".
CrawlStateTry(filter_zip_codes, answer) ==
    IF answer.kind \in {"raises", "no_content"}
    THEN [dispensaries |-> <<>>, raised |-> TRUE]
    ELSE IF answer.kind \in {"failed", "unparsable"}
    THEN [dispensaries |-> <<>>, raised |-> FALSE]
    ELSE LET kept == FilterListings(answer.pages, Len(answer.pages), filter_zip_codes)
         IN  IF kept.raised THEN [dispensaries |-> <<>>, raised |-> TRUE]
             ELSE DetailLoop(kept.filtered, Len(kept.filtered))

\* crawl_state without the except clause of line 251
crawl_state_NoCatch(filter_zip_codes, answer) ==
    CrawlStateTry(filter_zip_codes, answer)

\* crawl_state(self, state_abbr, state_name, url, filter_zip_codes): the
\* list it returns and whether an exception left it
crawl_state(filter_zip_codes, answer) ==
    [dispensaries |-> CrawlStateTry(filter_zip_codes, answer).dispensaries,
     raised |-> FALSE]

\* output_files[state_abbr] = output_file, for the ordered dict output_files
SetItem(d, k, v) ==
    IF \E i \in 1..Len(d) : d[i][1] = k
    THEN [i \in 1..Len(d) |-> IF d[i][1] = k THEN <<k, v>> ELSE d[i]]
    ELSE Append(d, <<k, v>>)

\* the path of a state's file that keeps the state name's case
OutputFile_KeepingCase(dir, state_name) ==
    os_path_join(dir, state_name \o DispensariesSuffix)

\* line 284: os.path.join(self.output_dir, f"{state_name.lower()}_dispensaries.json")
OutputFile(dir, state_name) ==
    os_path_join(dir, lower(state_name) \o DispensariesSuffix)

(***************************************************************************)
(* The inputs of the crawler and what the site answers.                    *)
(***************************************************************************)
Alaska     == <<"a", "l", "a", "s", "k", "a">>
Washington == <<"W", "a", "s", "h", "i", "n", "g", "t", "o", "n">>
NewHampshire == <<"n", "e", "w", "-", "h", "a", "m", "p", "s", "h", "i", "r", "e">>
NH == <<"N", "H">>

\* the items state_mapping is made of: state_abbr, (url, state_name).  The
\* names are those of states_to_urls, and one written with a capital.
MappingItems ==
    { <<AK, <<"https://potadvisor.com/states/alaska/alaska-dispensaries/", Alaska>> >>,
      <<WA, <<"https://potadvisor.com/states/washington/washington-dispensaries/",
              Washington>> >>,
      <<NH, <<"https://potadvisor.com/states/new-hampshire/new-hampshire-dispensaries/",
              NewHampshire>> >> }

\* the ordered dicts of at most MaxMapping items: no key twice
StateMappings ==
    {m \in SeqsUpTo(MappingItems, MaxMapping) :
        \A i, j \in 1..Len(m) : m[i][1] = m[j][1] => i = j}

\* filter_zips_by_state: no filter at all, or the groups of a grouping
\* (NH has none)
FilterDicts ==
    { EmptyMap,
      [st \in {AK, WA} |-> IF st = AK THEN <<Z99501, Z99501 \o Plus4>> ELSE <<Z98101>>] }

OutputDirs == { <<"o", "u", "t">>, <<"o", "u", "t", "/">> }

NameA == <<"A">>
NameB == <<"B">>
RelativeUrl == <<"/", "d", "/", "a">>
AbsoluteUrl == <<"h", "t", "t", "p", ":", "/", "/", "b">>

\* what a detail fetch that is never made would answer
NoDetail == [kind |-> "failed", data |-> <<>>]

\* the record of a detail page: fields of the detail schema (lines 84-118)
DetailRecord ==
    Row(<<"name", "address", "phone">>,
        <<(<<"A", "2">>), <<"2", " ">> \o Z97201, (<<"5", "5", "5">>)>>)

\* The pages of a state's listing: a listing with the answer to its detail
\* fetch.  Addresses with a ZIP of the filter, with its ZIP+4 form, with a
\* ZIP outside the filter, without a ZIP, missing, null; urls relative,
\* absolute, missing, empty, a number.
Pages ==
    { [listing |-> Row(<<"name", "address", "url">>,
                       <<NameA, <<"1", " ">> \o Z99501, RelativeUrl>>),
       detail  |-> [kind |-> "ok", data |-> <<DetailRecord>>]],
      [listing |-> Row(<<"name", "address", "url">>,
                       <<NameB, Z99501 \o Plus4 \o <<" ", "x">>, AbsoluteUrl>>),
       detail  |-> [kind |-> "ok", data |-> <<>>]],
      [listing |-> Row(<<"name", "address", "url">>,
                       <<NameB, Z98101 \o <<",">> \o Z99501, AbsoluteUrl>>),
       detail  |-> [kind |-> "raises", data |-> <<>>]],
      [listing |-> Row(<<"name", "address", "url">>,
                       <<NameA, Z97201, RelativeUrl>>),
       detail  |-> [kind |-> "failed", data |-> <<>>]],
      [listing |-> Row(<<"name", "url">>, <<NameA, (<<>>)>>),
       detail  |-> NoDetail],
      [listing |-> Row(<<"name", "address", "url">>,
                       <<NameB, Z99501, JsonNumber>>),
       detail  |-> NoDetail],
      [listing |-> Row(<<"name", "address">>, <<NameA, None>>),
       detail  |-> NoDetail] }

\* the answers without listings: the listing fetch did not succeed
FailedAnswers ==
    { [kind |-> k, pages |-> <<>>] : k \in {"raises", "failed", "unparsable", "no_content"} }

\* what the site can answer to the crawl of a state
SiteAnswers ==
    FailedAnswers \cup { [kind |-> "ok", pages |-> ps] : ps \in SeqsUpTo(Pages, MaxListings) }

PageOk     == CHOOSE p \in Pages : p.detail.kind = "ok" /\ p.detail.data # <<>>
PageFailed == CHOOSE p \in Pages : p.detail.kind = "failed" /\ "address" \in DOMAIN p.listing
PageRaises == CHOOSE p \in Pages : p.detail.kind = "raises"
PageBadUrl == CHOOSE p \in Pages : DictGet(p.listing, "url", None) = JsonNumber
PageBadAddress == CHOOSE p \in Pages : DictGet(p.listing, "address", <<>>) = None

\* The answers crawl_and_save is checked on: every failure of the listing
\* fetch, no listing, listings that give records, listings outside the
\* filter, an exception after a record was gathered and one before.
SampleAnswers ==
    FailedAnswers \cup
    { [kind |-> "ok", pages |-> ps] :
        ps \in { <<>>, <<PageOk>>, <<PageOk, PageRaises>>, <<PageFailed>>,
                 <<PageOk, PageBadUrl>>, <<PageBadAddress>> } }

(***************************************************************************)
(* crawl_and_save as a state machine: one step per item of state_mapping.  *)
(***************************************************************************)
InitCrawl ==
    /\ pc = "new"
    /\ files = NoFile
    /\ load_log = <<>>
    /\ zip_to_state_map = EmptyMap
    /\ returned = NoCall
    /\ groupings = <<>>
    /\ zip_codes = DefaultZipCodes
    /\ zip_code = Z99501
    /\ states = {WA}
    /\ base_url = DefaultBaseUrl
    /\ ScraperIdle
    /\ GuiIdle
    /\ crawl_pc = "idle"
    /\ output_dir \in OutputDirs
    /\ state_mapping \in StateMappings
    /\ filter_zips_by_state \in FilterDicts
    /\ crawl_i = 0
    /\ output_files = <<>>
    /\ site = NoSite
    /\ dispensaries = <<>>
    /\ crawl_log = <<>>

\* crawl_and_save is called: output_files = {} (line 268)
CrawlAndSaveCall ==
    /\ crawl_pc = "idle"
    /\ crawl_pc' = "looping"
    /\ output_files' = <<>>
    /\ crawl_i' = 0
    /\ UNCHANGED <<output_dir, state_mapping, filter_zips_by_state, site,
                   dispensaries, crawl_log>>
    /\ UNCHANGED <<mapperVars, scraperVars, guiVars>>

\* One pass of the loop of lines 270-296: the state is crawled, and its
\* records, if any, are written to its file; the write succeeds or raises.
CrawlAndSaveIteration ==
    /\ crawl_pc = "looping"
    /\ crawl_i < Len(state_mapping)
    /\ \E answer \in SampleAnswers, write_ok \in BOOLEAN :
         LET state_abbr  == state_mapping[crawl_i + 1][1]
             state_name  == state_mapping[crawl_i + 1][2][2]
             filter_zip_codes == SetOf(DictGet(filter_zips_by_state, state_abbr, <<>>))
             r           == crawl_state(filter_zip_codes, answer)
             output_file == OutputFile(output_dir, state_name)
             saved       == r.dispensaries # <<>> /\ write_ok
         IN  /\ site' = answer
             /\ dispensaries' = r.dispensaries
             /\ crawl_log' = Append(crawl_log,
                                [state   |-> state_abbr,
                                 records |-> Len(r.dispensaries),
                                 raised  |-> r.raised,
                                 written |-> saved])
             /\ IF r.raised
                THEN crawl_pc' = "raised" /\ UNCHANGED <<crawl_i, output_files>>
                ELSE /\ crawl_pc' = "looping"
                     /\ crawl_i' = crawl_i + 1
                     /\ output_files' = IF saved
                                        THEN SetItem(output_files, state_abbr, output_file)
                                        ELSE output_files
    /\ UNCHANGED <<output_dir, state_mapping, filter_zips_by_state>>
    /\ UNCHANGED <<mapperVars, scraperVars, guiVars>>

\* return output_files (line 298)
CrawlAndSaveReturn ==
    /\ crawl_pc = "looping"
    /\ crawl_i = Len(state_mapping)
    /\ crawl_pc' = "returned"
    /\ UNCHANGED <<output_dir, state_mapping, filter_zips_by_state, crawl_i,
                   output_files, site, dispensaries, crawl_log>>
    /\ UNCHANGED <<mapperVars, scraperVars, guiVars>>

NextCrawl ==
    \/ CrawlAndSaveCall
    \/ CrawlAndSaveIteration
    \/ CrawlAndSaveReturn

SpecCrawl == InitCrawl /\ [][NextCrawl]_vars

\* the event loop runs the coroutine on: every fetch it awaits answers
SpecCrawlFair == SpecCrawl /\ WF_vars(NextCrawl)

(***************************************************************************)
(* Claims about crawl_and_save (SpecCrawl, SpecCrawlFair).                 *)
(***************************************************************************)
\* the keys of state_mapping, in its order
MappingKeys == [i \in 1..Len(state_mapping) |-> state_mapping[i][1]]

\* the state name state_mapping gives a state
NameOf(state_abbr) ==
    state_mapping[CHOOSE i \in 1..Len(state_mapping) : state_mapping[i][1] = state_abbr][2][2]

\* the crawl of the state gave at least one record and its file was written
CrawledAndWritten(state_abbr) ==
    \E i \in 1..Len(crawl_log) :
        /\ crawl_log[i].state = state_abbr
        /\ crawl_log[i].records >= 1
        /\ crawl_log[i].written

\* dir and file joined by one separator, none added after a final one
JoinedPath(dir, file) ==
    IF dir # <<>> /\ dir[Len(dir)] # "/" THEN dir \o <<"/">> \o file ELSE dir \o file

\* the state name with its capitals replaced by small letters
SmallLetters(name) ==
    [i \in 1..Len(name) |->
        IF \E k \in 1..26 : UpperSeq[k] = name[i]
        THEN LowerSeq[CHOOSE k \in 1..26 : UpperSeq[k] = name[i]]
        ELSE name[i]]

RECURSIVE BeforeBadUrl(_)
BeforeBadUrl(pages) ==
    IF pages = <<>> \/ DictGet(Head(pages).listing, "url", None) = JsonNumber THEN 0
    ELSE 1 + BeforeBadUrl(Tail(pages))

\* the last crawl_state met a failure: of the listing fetch, of the parse,
\* or an exception in one of its loops
CrawlFailed ==
    \/ site.kind \in {"raises", "failed", "unparsable", "no_content"}
    \/ \E i \in 1..Len(site.pages) :
          \/ DictGet(site.pages[i].listing, "address", <<>>) = None
          \/ DictGet(site.pages[i].listing, "url", None) = JsonNumber

\* C13: in crawl_and_save one state's failure does not block another's.
\* crawl_state never raises: a failed listing fetch, unparsable content or
\* an exception ends that state's crawl, which returns the records gathered
\* so far; a failed write is caught.  So the states of state_mapping are
\* attempted exactly once each, in mapping order, whatever happened to the
\* states before, and in the end all of them were.
C13_EveryStateAttemptedInOrder ==
    /\ [](/\ crawl_pc # "raised"
          /\ \A i \in 1..Len(crawl_log) : ~crawl_log[i].raised
          /\ Len(crawl_log) <= Len(state_mapping)
          /\ \A i \in 1..Len(crawl_log) : crawl_log[i].state = state_mapping[i][1]
          /\ site.kind \in {"raises", "failed", "unparsable", "no_content"}
                => dispensaries = <<>>
          /\ (site.kind = "ok" /\ filter_zips_by_state = <<>>
                /\ \A i \in 1..Len(site.pages) :
                      DictGet(site.pages[i].listing, "address", <<>>) # None)
                => Len(dispensaries) = BeforeBadUrl(site.pages)
          /\ crawl_pc = "returned" => Len(crawl_log) = Len(state_mapping))
    /\ <>(crawl_pc = "returned")

\* C13 witness: crawl_and_save returned after two states; the crawl of the
\* first failed or its write did, and the second was crawled all the same
\* and ended on an exception after a record was gathered.
C13_Witness ==
    /\ crawl_pc = "returned"
    /\ Len(crawl_log) = 2
    /\ ~crawl_log[1].written
    /\ CrawlFailed
    /\ \E i \in 1..Len(site.pages) :
          DictGet(site.pages[i].listing, "url", None) = JsonNumber
    /\ Len(dispensaries) = 1

(***************************************************************************)
(* The GUI (src/src/gui/zip_input_app.py, class ZipCodeInputApp).  The     *)
(* messages of the output log, the status bar and the message boxes are    *)
(* kept as their format strings.  A handler runs on a window w, the record *)
(* of the widgets' contents and of what the handler did so far.            *)
(***************************************************************************)
MaxClicks == 2      \* clicks on "Run Data Collection"

\* msg appended n times
RECURSIVE Repeat(_, _, _)
Repeat(log, msg, n) == IF n = 0 THEN log ELSE Repeat(Append(log, msg), msg, n - 1)

\* log_message(self, message)
log_message(w, message) == [w EXCEPT !.output_log = Append(@, message)]

\* set_status(self, message)
set_status(w, message) == [w EXCEPT !.status_var = message]

\* messagebox.showwarning / showerror, by the title of the box
showbox(w, title) == [w EXCEPT !.dialogs = Append(@, title)]

\* sum(len(zips) for zips in state_groups.values())
RECURSIVE total_zips(_)
total_zips(state_groups) ==
    IF state_groups = <<>> THEN 0
    ELSE Len(Head(state_groups)[2]) + total_zips(Tail(state_groups))

\* run_data_collection without its except clause: the exception leaves it
ProcessingError_Propagating(w) ==
    [w EXCEPT !.raised = TRUE, !.propagated = TRUE]

\* the except clause of run_data_collection (lines 230-235)
ProcessingError(w) ==
    showbox(set_status(log_message([w EXCEPT !.raised = TRUE],
                                   "Error processing ZIP codes: {e}"),
                       "Error: See log for details"),
            "Processing Error")

\* simulate_crawling(self, urls, state_groups) (lines 280-321).  The import
\* of the crawler module answers "ok", "ImportError" or "raises" (another
\* exception); Thread.start() succeeds or raises.  Returns the window and
\* whether an exception left the method.
simulate_crawling(w, urls, state_groups, env) ==
    IF env.import = "raises" THEN [w |-> w, raised |-> TRUE]
    ELSE IF env.import = "ImportError"
    THEN LET header == log_message(w,
                 "\nCrawler module not found. Simulating the crawling process:")
             lines == [header EXCEPT !.output_log =
                 Repeat(Repeat(Repeat(@, "- Would crawl {url} for state {state} ({state_name})",
                                      Cardinality(DOMAIN urls)),
                               "  Filtering results for ZIP codes: {zips}",
                               Cardinality(DOMAIN urls)),
                        "  Results would be saved to: {output_file}",
                        Cardinality(DOMAIN urls))]
         IN  [w |-> set_status(log_message(lines,
                        "\nSimulation complete. Please implement the crawler module."),
                        "Ready"),
              raised |-> FALSE]
    ELSE IF ~env.start_ok THEN [w |-> w, raised |-> TRUE]
    ELSE [w |-> [w EXCEPT !.thread =
                    <<[pc |-> "started", urls |-> urls, state_groups |-> state_groups]>>],
          raised |-> FALSE]

\* The try block of run_data_collection after a non-empty grouping (lines
\* 209-228)
CollectFor(w, state_groups, env) ==
    LET counted == log_message(w,
            "Successfully processed {total_zips} ZIP codes across {n} states.")
        listed == [counted EXCEPT !.output_log =
            Repeat(@, "State {state}: {n} ZIP codes", Len(state_groups))]
        urls == states_to_urls(KeysOf(state_groups), DefaultBaseUrl)
        generated == [listed EXCEPT
            !.generated_urls = TRUE,
            !.output_log = Repeat(@, "Generated URL for {state}: {url}",
                                  Cardinality(DOMAIN urls))]
        announced == set_status(log_message(generated, "\nInitiating data collection..."),
                                "Data collection in progress...")
        crawl == simulate_crawling(announced, urls, state_groups, env)
    IN  IF crawl.raised THEN ProcessingError(crawl.w) ELSE crawl.w

\* run_data_collection without the check of lines 203-207: it goes on with
\* an empty grouping
run_data_collection_NoEmptyCheck(w, map, text, env) ==
    LET zip_codes_read == Strip(text \o <<NL>>)
    IN  IF zip_codes_read = <<>> THEN showbox(w, "No Input")
        ELSE
        LET begun == log_message(set_status(w, "Processing ZIP codes..."),
                                 "Starting ZIP code processing...")
            r == process_zip_codes(map, [kind |-> "str", text |-> zip_codes_read,
                                         list |-> <<>>])
            called == [begun EXCEPT !.called_process = TRUE]
        IN  IF r.raised THEN ProcessingError(called)
            ELSE CollectFor(called, r.result, env)

\* run_data_collection(self) (lines 187-235) on the window w, the database
\* map and the text of the input widget; Text.get(1.0, END) gives the text
\* and a newline.
run_data_collection(w, map, text, env) ==
    LET zip_codes_read == Strip(text \o <<NL>>)
    IN  IF zip_codes_read = <<>> THEN showbox(w, "No Input")
        ELSE
        LET begun == log_message(set_status(w, "Processing ZIP codes..."),
                                 "Starting ZIP code processing...")
            r == process_zip_codes(map, [kind |-> "str", text |-> zip_codes_read,
                                         list |-> <<>>])
            called == [begun EXCEPT !.called_process = TRUE]
        IN  IF r.raised THEN ProcessingError(called)
            ELSE IF r.result = <<>>
            THEN showbox(log_message(set_status(called, "No valid ZIP codes found."),
                            "No valid ZIP codes found. Please check your input."),
                         "No Valid ZIPs")
            ELSE CollectFor(called, r.result, env)

\* The crawl of a thread: what crawl_and_save can return for its
\* state_mapping, the states whose crawl gave records and whose file was
\* written.  Only the keys show in the window.
CrawlResults(urls) == SUBSET (DOMAIN urls)

\* the except clause of run_crawler (lines 274-278)
CrawlerError(w) ==
    set_status(log_message([w EXCEPT !.raised = TRUE], "Error running crawler: {e}"),
               "Error: See log for details")

\* run_crawler without its except clause
CrawlerError_Propagating(w) ==
    [w EXCEPT !.raised = TRUE, !.propagated = TRUE]

\* run_crawler up to the await of line 264: the log lines, the output
\* directory (os.makedirs and PotAdvisorCrawler(...) succeed or raise), the
\* status
run_crawler_begin(w, urls, makedirs_ok) ==
    LET header == log_message(w, "\nInitiating data collection process:")
        lines == [header EXCEPT !.output_log =
            Repeat(Repeat(@, "- Will crawl {url} for state {state} ({state_name})",
                          Cardinality(DOMAIN urls)),
                   "  Filtering results for {n} ZIP codes", Cardinality(DOMAIN urls))]
    IN  IF ~makedirs_ok THEN CrawlerError(lines)
        ELSE set_status(lines, "Crawling in progress...")

\* run_crawler after crawl_and_save returned output_files (lines 266-272)
run_crawler_end(w, output_files_keys) ==
    LET header == log_message(w, "\nData collection complete. Results saved to:")
        lines == [header EXCEPT !.output_log =
            Repeat(@, "- {state}: {file_path}", Cardinality(output_files_keys))]
    IN  log_message(set_status(lines, "Ready"), "\nAll tasks completed successfully.")

(***************************************************************************)
(* The inputs of the GUI.                                                  *)
(***************************************************************************)
\* the texts typed: nothing, blanks, a ZIP of the synthesized table, one of
\* no table, two states, no ZIP at all
GuiTexts ==
    { <<>>, <<" ", NL>>, Z99501, Z97201, Z99501 \o <<",", " ">> \o Z98101,
      <<"a", "b", "c">> }

\* ZipCodeMapper() is built without a path: on the bundled file or none
GuiEnvs == {fs \in SampleEnvs : ~fs.path_given}

\* what the import of the crawler module and Thread.start() do
CrawlEnvs ==
    { [import |-> "ok", start_ok |-> TRUE], [import |-> "ok", start_ok |-> FALSE],
      [import |-> "ImportError", start_ok |-> TRUE],
      [import |-> "raises", start_ok |-> TRUE] }

(***************************************************************************)
(* The GUI as a state machine: the handlers on the main thread, the crawl  *)
(* threads in two steps each, before and after the await of line 264.      *)
(***************************************************************************)
\* the window as the handlers see it
Window ==
    [status_var |-> status_var, output_log |-> output_log, dialogs |-> dialogs,
     thread |-> <<>>, called_process |-> FALSE, generated_urls |-> FALSE,
     raised |-> FALSE, propagated |-> FALSE]

\* the widgets after a handler or thread step left the window w
Shown(w, op, n) ==
    /\ status_var' = w.status_var
    /\ output_log' = w.output_log
    /\ dialogs' = w.dialogs
    /\ handler' = [op |-> op, n |-> n, called_process |-> w.called_process,
                   generated_urls |-> w.generated_urls,
                   started_thread |-> w.thread # <<>>,
                   raised |-> w.raised, propagated |-> w.propagated]

InitGui ==
    /\ Fresh
    /\ zip_codes = DefaultZipCodes
    /\ zip_code = Z99501
    /\ states = {WA}
    /\ base_url = DefaultBaseUrl

\* ZipCodeInputApp.__init__ (lines 44-67): the mapper, the widgets
CreateApp ==
    /\ pc = "new"
    /\ \E fs \in GuiEnvs :
         LET r == _load_zip_database(fs)
         IN  /\ files' = fs
             /\ zip_to_state_map' = r.map
             /\ load_log' = r.log
             /\ pc' = IF r.raised THEN "raised" ELSE "ready"
    /\ status_var' = "Ready"
    /\ UNCHANGED <<zip_codes, zip_code, states, base_url, returned, groupings>>
    /\ UNCHANGED <<zip_input, output_log, dialogs, threads, crawler_module, handler>>
    /\ UNCHANGED <<crawlVars, scraperVars>>

\* The user types a text and clicks "Run Data Collection".  The import of
\* line 290 gives what an earlier import of the module gave (sys.modules
\* keeps a module that was imported, and an import that failed fails again).
RunDataCollection ==
    /\ pc = "ready"
    /\ handler.n < MaxClicks
    /\ ~handler.propagated
    /\ \E text \in GuiTexts, env \in CrawlEnvs :
         /\ crawler_module \in {"untried", env.import}
         /\ LET w == run_data_collection(Window, zip_to_state_map, text, env)
            IN  /\ zip_input' = text
                /\ threads' = threads \o w.thread
                /\ crawler_module' = IF w.generated_urls THEN env.import
                                     ELSE crawler_module
                /\ Shown(w, "run_data_collection", handler.n + 1)
    /\ UNCHANGED <<mapperVars, crawlVars, scraperVars>>

\* clear_input(self) (lines 160-162)
ClearInput ==
    /\ pc = "ready"
    /\ zip_input # <<>>
    /\ zip_input' = <<>>
    /\ UNCHANGED <<status_var, output_log, dialogs, threads, crawler_module, handler>>
    /\ UNCHANGED <<mapperVars, crawlVars, scraperVars>>

\* a crawl thread runs run_crawler up to its await
RunCrawlerBegin ==
    /\ \E t \in 1..Len(threads), makedirs_ok \in BOOLEAN :
         /\ threads[t].pc = "started"
         /\ LET w == run_crawler_begin(Window, threads[t].urls, makedirs_ok)
            IN  /\ threads' = [threads EXCEPT ![t].pc =
                                  IF w.propagated THEN "crashed"
                                  ELSE IF w.raised THEN "ended" ELSE "crawling"]
                /\ Shown(w, "run_crawler", handler.n)
    /\ UNCHANGED <<zip_input, crawler_module>>
    /\ UNCHANGED <<mapperVars, crawlVars, scraperVars>>

\* crawl_and_save returned to a crawl thread, which ends
RunCrawlerEnd ==
    /\ \E t \in 1..Len(threads) :
         /\ threads[t].pc = "crawling"
         /\ \E keys \in CrawlResults(threads[t].urls) :
              LET w == run_crawler_end(Window, keys)
              IN  /\ threads' = [threads EXCEPT ![t].pc = "ended"]
                  /\ Shown(w, "run_crawler", handler.n)
    /\ UNCHANGED <<zip_input, crawler_module>>
    /\ UNCHANGED <<mapperVars, crawlVars, scraperVars>>

NextGui ==
    \/ CreateApp
    \/ RunDataCollection
    \/ ClearInput
    \/ RunCrawlerBegin
    \/ RunCrawlerEnd

SpecGui == InitGui /\ [][NextGui]_vars

(***************************************************************************)
(* Claims about the GUI (SpecGui).                                         *)
(***************************************************************************)
\* the last element of a non-empty sequence, "" of the empty one
LastOf(seq) == IF seq = <<>> THEN "" ELSE seq[Len(seq)]

\* C14: an exception raised during classification in run_data_collection or
\* during crawling in run_crawler is caught inside that method, written to
\* the output log and shown in the status bar as an error; it never leaves
\* the handler or the background thread, so the application keeps running
\* and accepts the next input.
C14_ExceptionsCaughtLoggedShown ==
    /\ ~handler.propagated
    /\ \A t \in 1..Len(threads) : threads[t].pc # "crashed"
    /\ handler.raised =>
          /\ status_var = "Error: See log for details"
          /\ handler.op = "run_data_collection" =>
                LastOf(output_log) = "Error processing ZIP codes: {e}"
          /\ handler.op = "run_crawler" =>
                LastOf(output_log) = "Error running crawler: {e}"
          /\ handler.n < MaxClicks => ENABLED RunDataCollection

\* C14 witness: a first click met an exception, the next click started a
\* crawl all the same, and that crawl met an exception in its thread.
C14_Witness ==
    /\ handler.op = "run_crawler"
    /\ handler.raised
    /\ \E i \in 1..Len(output_log) : output_log[i] = "Error processing ZIP codes: {e}"
    /\ LastOf(output_log) = "Error running crawler: {e}"

\* every character is white space
Blank(text) == \A k \in 1..Len(text) : text[k] \in Spaces

\* the grouping process_zip_codes gives the text
GroupingOf(text) ==
    process_zip_codes(zip_to_state_map,
                      [kind |-> "str", text |-> text, list |-> <<>>]).result

\* C15: run_data_collection starts a crawl only when the classification
\* returned a non-empty grouping.  With a blank input (empty or white space
\* only) it returns before calling process_zip_codes, and with an input that
\* gives an empty grouping it returns after a warning: in both cases no URL
\* is generated and no background crawl thread is started.
C15_CrawlOnlyForNonEmptyGrouping ==
    [][handler'.n = handler.n + 1 =>
          /\ Blank(zip_input') =>
                /\ ~handler'.called_process
                /\ ~handler'.generated_urls
                /\ threads' = threads
                /\ dialogs' = Append(dialogs, "No Input")
          /\ (~Blank(zip_input') /\ GroupingOf(zip_input') = <<>>) =>
                /\ handler'.called_process
                /\ ~handler'.generated_urls
                /\ threads' = threads
                /\ dialogs' = Append(dialogs, "No Valid ZIPs")
          /\ threads' # threads =>
                /\ GroupingOf(zip_input') # <<>>
                /\ Len(threads') = Len(threads) + 1
                /\ handler'.generated_urls
    ]_vars

\* C15 witness: after a click that started a crawl, a click on a ZIP that
\* resolves to no state: the warning, and no second thread.
C15_Witness ==
    /\ handler.op = "run_data_collection"
    /\ handler.n = 2
    /\ zip_input = Z97201
    /\ handler.called_process
    /\ ~handler.started_thread
    /\ LastOf(dialogs) = "No Valid ZIPs"
    /\ Len(threads) = 1

(***************************************************************************)
(* Claims about the rows of a CSV source (SpecLoad).                       *)
(***************************************************************************)
\* the row has a non-empty value under the header
Filled(row, h) == h \in DOMAIN row /\ row[h] # <<>> /\ row[h] # None

\* the value under the first of the headers that is filled
FirstFilled(row, hs) == row[hs[CHOOSE i \in 1..Len(hs) :
                            Filled(row, hs[i]) /\ \A j \in 1..(i - 1) : ~Filled(row, hs[j])]]

ZipHeaders   == <<"zip_code", "zipcode", "ZIP">>
StateHeaders == <<"state", "STATE", "state_abbr">>

\* the row has a ZIP field and a state field
Complete(row) ==
    /\ \E i \in 1..Len(ZipHeaders) : Filled(row, ZipHeaders[i])
    /\ \E i \in 1..Len(StateHeaders) : Filled(row, StateHeaders[i])

\* the rows the constructor read from the CSV file it opened
RowsRead ==
    LET file == IF CustomTried THEN files.custom ELSE files.bundled
    IN  SubSeq(file.rows, 1, file.good)

\* the complete rows read that have the ZIP
RowsWith(k) ==
    {i \in 1..Len(RowsRead) :
        Complete(RowsRead[i]) /\ FirstFilled(RowsRead[i], ZipHeaders) = k}

\* the largest element of a non-empty set of numbers
Last(S) == CHOOSE i \in S : \A j \in S : j <= i

\* C16: when a CSV source is loaded, each row adds an entry ZIP -> state if
\* and only if it has a non-empty value under one of the ZIP headers
\* (zip_code, zipcode, ZIP, in that order) and one under one of the state
\* headers (state, STATE, state_abbr, in that order); a row that misses
\* either adds nothing and raises nothing, and of several rows with the
\* same ZIP the last one's state is kept.
C16_RowsAddEntriesLastWins ==
    (pc = "ready" /\ (CustomTried \/ BundledTried)) =>
        /\ ~LoadFailed =>
              DOMAIN zip_to_state_map =
                 {FirstFilled(RowsRead[i], ZipHeaders) :
                     i \in {j \in 1..Len(RowsRead) : Complete(RowsRead[j])}}
        /\ \A k \in DOMAIN zip_to_state_map \ DOMAIN WatchedTable : RowsWith(k) # {}
        /\ \A i \in 1..Len(RowsRead) :
              Complete(RowsRead[i]) =>
                 LET k == FirstFilled(RowsRead[i], ZipHeaders)
                 IN  /\ k \in DOMAIN zip_to_state_map
                     /\ (~LoadFailed \/ k \notin DOMAIN WatchedTable) =>
                           zip_to_state_map[k] =
                              FirstFilled(RowsRead[Last(RowsWith(k))], StateHeaders)

\* C16 witness: a file read to its end in which a ZIP stands in two rows
\* with different states, under different header spellings.
C16_Witness ==
    /\ pc = "ready"
    /\ CustomTried
    /\ ~LoadFailed
    /\ Len(RowsRead) = 2
    /\ Complete(RowsRead[1]) /\ Complete(RowsRead[2])
    /\ FirstFilled(RowsRead[1], ZipHeaders) = FirstFilled(RowsRead[2], ZipHeaders)
    /\ FirstFilled(RowsRead[1], StateHeaders) # FirstFilled(RowsRead[2], StateHeaders)
    /\ DOMAIN RowsRead[1] # DOMAIN RowsRead[2]

\* C17: after construction from any source, every key of the ZIP database
\* is a string of exactly 5 digits and every value is a two-letter
\* uppercase state abbreviation.
C17_KeysFiveDigitsValuesStateCodes ==
    pc = "ready" =>
        \A k \in DOMAIN zip_to_state_map :
            /\ Len(k) = ZipLen
            /\ \A i \in 1..Len(k) : k[i] \in Digits
            /\ IsStateCode(zip_to_state_map[k])

(***************************************************************************)
(* The scraper (src/src/scrapers/crawl4ai_integration/scraper.py, class    *)
(* Scraper).  A value of raw_data is [type, str, list]: a str, a list of   *)
(* str, or None.                                                           *)
(***************************************************************************)
MaxRawKeys == 2     \* keys of raw_data

StrValue(s)   == [type |-> "str", str |-> s, list |-> <<>>]
ListValue(l)  == [type |-> "list", str |-> <<>>, list |-> l]
NoneValue     == [type |-> "NoneType", str |-> <<>>, list |-> <<>>]
EmptyDict     == [type |-> "dict", str |-> <<>>, list |-> <<>>]

\* _normalize_vendor_data that drops the website
NormalizeVendorData_WithoutWebsite(raw) ==
    [k \in {"name", "address", "phone", "hours", "menu_items", "deals"} |->
        CASE k \in {"name", "address", "phone"} -> DictGet(raw, k, StrValue(<<>>))
          [] k = "hours" -> EmptyDict
          [] OTHER -> ListValue(<<>>)]

\* _normalize_vendor_data(self, raw_data) (lines 52-72): the dict returned
_normalize_vendor_data(raw) ==
    [k \in {"name", "address", "phone", "website", "hours", "menu_items", "deals"} |->
        CASE k \in {"name", "address", "phone", "website"} -> DictGet(raw, k, StrValue(<<>>))
          [] k = "hours" -> EmptyDict
          [] OTHER -> ListValue(<<>>)]

\* the keys raw_data can have: those the method reads, those of the test
\* and of the extraction targets that it does not
RawKeys == {"name", "address", "phone", "website", "hours", "menu", "deals"}

\* the values under them: a str, the empty str, a list (as in the test), None
RawValues ==
    { StrValue(<<"T">>), StrValue(<<>>), ListValue(<< <<"T">> >>), NoneValue }

\* the dicts of at most MaxRawKeys keys, and the dict of test_normalize_vendor_data
RawDicts ==
    UNION { [K -> RawValues] : K \in {S \in SUBSET RawKeys : Cardinality(S) <= MaxRawKeys} }
    \cup { [k \in RawKeys |-> ListValue(<< <<"T">> >>)] }

InitScraper ==
    /\ pc = "new"
    /\ files = NoFile
    /\ load_log = <<>>
    /\ zip_to_state_map = EmptyMap
    /\ returned = NoCall
    /\ groupings = <<>>
    /\ zip_codes = DefaultZipCodes
    /\ zip_code = Z99501
    /\ states = {WA}
    /\ base_url = DefaultBaseUrl
    /\ CrawlerIdle
    /\ GuiIdle
    /\ raw_data \in RawDicts
    /\ normalized = <<>>

\* a call of _normalize_vendor_data(raw_data)
NormalizeVendorData ==
    /\ DOMAIN normalized = {}
    /\ normalized' = _normalize_vendor_data(raw_data)
    /\ UNCHANGED raw_data
    /\ UNCHANGED <<mapperVars, crawlVars, guiVars>>

NextScraper == NormalizeVendorData

SpecScraper == InitScraper /\ [][NextScraper]_vars

(***************************************************************************)
(* Claims about the scraper (SpecScraper).                                 *)
(***************************************************************************)
\* C18: for any raw_data dictionary, _normalize_vendor_data returns a
\* dictionary with exactly the keys name, address, phone, website, hours,
\* menu_items and deals; name, address, phone and website are the raw
\* values under the same keys, or the empty string when the key is missing;
\* hours, menu_items and deals are empty; raw_data is not modified.
C18_NormalizedShape ==
    /\ [](DOMAIN normalized # {} =>
            /\ DOMAIN normalized =
                  {"name", "address", "phone", "website", "hours", "menu_items", "deals"}
            /\ \A k \in {"name", "address", "phone", "website"} :
                  normalized[k] = IF k \in DOMAIN raw_data THEN raw_data[k]
                                  ELSE [type |-> "str", str |-> <<>>, list |-> <<>>]
            /\ normalized["hours"].type = "dict"
            /\ normalized["menu_items"].type = "list"
            /\ normalized["deals"].type = "list"
            /\ \A k \in {"hours", "menu_items", "deals"} :
                  normalized[k].str = <<>> /\ normalized[k].list = <<>>)
    /\ [][raw_data' = raw_data]_vars

\* C18 witness: the call on a dict with a website and hours and no name.
C18_Witness ==
    /\ DOMAIN normalized # {}
    /\ DOMAIN raw_data = {"website", "hours"}
    /\ raw_data["website"].type = "list"
    /\ normalized["website"] = raw_data["website"]
    /\ normalized["name"].str = <<>>

(***************************************************************************)
(* Claims about the parsing passes of process_zip_codes (Spec).            *)
(***************************************************************************)
\* a character that is part of a word: a letter, a digit or an underscore
WordChar(c) == c \in Digits \cup Upper \cup Lower \cup {"_"}

\* a word begins or ends between the characters i and i + 1 of s
Edge(s, i) ==
    (i >= 1 /\ WordChar(s[i])) # (i + 1 <= Len(s) /\ WordChar(s[i + 1]))

\* the characters i + 1 .. i + n of s are there and are digits
AllDigits(s, i, n) == i + n <= Len(s) /\ \A k \in (i + 1)..(i + n) : s[k] \in Digits

\* 5 digits, a hyphen and 4 digits stand as a whole word after i characters
Plus4WordAt(s, i) ==
    /\ Edge(s, i)
    /\ AllDigits(s, i, 5)
    /\ i + 6 <= Len(s) /\ s[i + 6] = "-"
    /\ AllDigits(s, i + 6, 4)
    /\ Edge(s, i + 10)

\* 5 digits stand as a whole word after i characters
FiveWordAt(s, i) == Edge(s, i) /\ AllDigits(s, i, 5) /\ Edge(s, i + 5)

\* the places of s where a whole-word match of the ZIP pattern begins
MatchStarts(s) == {i \in 0..Len(s) : Plus4WordAt(s, i) \/ FiveWordAt(s, i)}

\* the match that begins there: the ZIP+4 form when it stands there
MatchOf(s, i) ==
    IF Plus4WordAt(s, i) THEN SubSeq(s, i + 1, i + 10) ELSE SubSeq(s, i + 1, i + 5)

\* the elements of a finite set of numbers in increasing order
RECURSIVE Sorted(_)
Sorted(S) ==
    IF S = {} THEN <<>>
    ELSE LET least == CHOOSE i \in S : \A j \in S : i <= j
         IN  <<least>> \o Sorted(S \ {least})

\* every whole-word match of the ZIP pattern, from left to right
WholeWordMatches(s) ==
    LET starts == Sorted(MatchStarts(s))
    IN  [k \in 1..Len(starts) |-> MatchOf(s, starts[k])]

\* a character the fallback pass splits on
Separating(c) == c \in {",", ";", " ", NL}

\* the maximal runs of characters of s that are no separators
Tokens(s) ==
    LET begins == {i \in 1..Len(s) :
                      ~Separating(s[i]) /\ (i = 1 \/ Separating(s[i - 1]))}
        EndOf(i) == CHOOSE j \in i..Len(s) :
                      /\ \A k \in i..j : ~Separating(s[k])
                      /\ j = Len(s) \/ Separating(s[j + 1])
        order == Sorted(begins)
    IN  [k \in 1..Len(order) |-> SubSeq(s, order[k], EndOf(order[k]))]

\* the tokens made of digits only
DigitOnly(tokens) ==
    SelectSeq(tokens, LAMBDA t : \A k \in 1..Len(t) : t[k] \in Digits)

\* C19: for a string, the candidates of process_zip_codes are every
\* whole-word match of the ZIP pattern (5 digits, optionally a hyphen and 4
\* digits) from left to right; the fallback pass (split on runs of comma,
\* semicolon or white space, keep the digit-only tokens) runs only when the
\* first pass found no match.  For a list the candidates are its elements
\* as given, and the fallback pass never runs.
C19_CandidatesOfTheTwoPasses ==
    Processed =>
        /\ zip_codes.kind = "str" =>
              /\ WholeWordMatches(zip_codes.text) # <<>> =>
                    /\ Candidates = WholeWordMatches(zip_codes.text)
                    /\ ~UsedFallback(zip_codes)
              /\ WholeWordMatches(zip_codes.text) = <<>> =>
                    /\ Candidates = DigitOnly(Tokens(zip_codes.text))
                    /\ UsedFallback(zip_codes)
        /\ zip_codes.kind = "list" =>
              /\ Candidates = zip_codes.list
              /\ ~UsedFallback(zip_codes)
        /\ \A i \in 1..Len(returned.value) :
              Elems(returned.value[i][2]) \subseteq Elems(Candidates)

\* C19 witness: a text with a ZIP+4 and a 5-digit ZIP, taken in that order
\* by the first pass alone.
C19_Witness ==
    /\ Processed
    /\ zip_codes.kind = "str"
    /\ Candidates = <<Z98101 \o Plus4, Z99501>>
    /\ Len(DigitOnly(Tokens(zip_codes.text))) < 2

\* C20: whenever process_zip_codes uses the fallback pass, the grouping it
\* returns is empty: no digit-only token of the fallback split passes
\* validate_zip_code, so the pass adds to the invalid ZIPs only.
C20_FallbackGivesEmptyGrouping ==
    (Processed /\ UsedFallback(zip_codes)) =>
        /\ returned.value = <<>>
        /\ \A z \in Elems(Candidates) : ~validate_zip_code(zip_to_state_map, z)
        /\ process_zip_codes(zip_to_state_map, zip_codes).invalid_zips = Candidates

\* C20 witness: the fallback pass gave a token of ten digits that begins
\* with a ZIP of the database, and a shorter one.
C20_Witness ==
    /\ Processed
    /\ UsedFallback(zip_codes)
    /\ \E z \in Elems(Candidates) :
          Len(z) > ZipLen /\ SubSeq(z, 1, ZipLen) \in DOMAIN zip_to_state_map
    /\ returned.value = <<>>

(***************************************************************************)
(* crawl_state alone: one call, as crawl_and_save makes it for a state     *)
(* (lines 272-280), on every answer of the site that the schemas allow.    *)
(* The listing schema (lines 54-75) has the fields name and address of     *)
(* type text and url of type attribute, and the detail schema (lines       *)
(* 84-118) has text and attribute fields only: the extraction gives        *)
(* records whose values are strings, a field that was not found being left *)
(* out.                                                                    *)
(***************************************************************************)
\* a record as the extraction of a schema of text and attribute fields
\* gives it
OfSchema(record) == \A k \in DOMAIN record : IsStr(record[k])

\* what the site can answer under the schemas of the crawler
SchemaAnswers ==
    {a \in SiteAnswers :
        \A i \in 1..Len(a.pages) :
            /\ OfSchema(a.pages[i].listing)
            /\ \A j \in 1..Len(a.pages[i].detail.data) :
                  OfSchema(a.pages[i].detail.data[j])}

InitCrawlState ==
    /\ pc = "new"
    /\ files = NoFile
    /\ load_log = <<>>
    /\ zip_to_state_map = EmptyMap
    /\ returned = NoCall
    /\ groupings = <<>>
    /\ zip_codes = DefaultZipCodes
    /\ zip_code = Z99501
    /\ states = {WA}
    /\ base_url = DefaultBaseUrl
    /\ ScraperIdle
    /\ GuiIdle
    /\ crawl_pc = "idle"
    /\ output_dir = <<"o", "u", "t">>
    /\ state_mapping \in {m \in StateMappings : Len(m) = 1}
    /\ filter_zips_by_state \in FilterDicts
    /\ crawl_i = 0
    /\ output_files = <<>>
    /\ site = NoSite
    /\ dispensaries = <<>>
    /\ crawl_log = <<>>

\* Lines 272-280: crawl_state is called for the state of state_mapping with
\* the set of that state's filter ZIP codes, and returns its list.
CrawlState ==
    /\ crawl_pc = "idle"
    /\ \E answer \in SchemaAnswers :
         LET state_abbr == state_mapping[1][1]
             filter_zip_codes == SetOf(DictGet(filter_zips_by_state, state_abbr, <<>>))
         IN  \E r \in {crawl_state(filter_zip_codes, answer)} :
                /\ site' = answer
                /\ dispensaries' = r.dispensaries
                /\ crawl_log' = Append(crawl_log,
                                   [state   |-> state_abbr,
                                    records |-> Len(r.dispensaries),
                                    raised  |-> r.raised,
                                    written |-> FALSE])
    /\ crawl_pc' = "crawled"
    /\ UNCHANGED <<output_dir, state_mapping, filter_zips_by_state, crawl_i, output_files>>
    /\ UNCHANGED <<mapperVars, scraperVars, guiVars>>

NextCrawlState == CrawlState

SpecCrawlState == InitCrawlState /\ [][NextCrawlState]_vars

(***************************************************************************)
(* Claims about crawl_state (SpecCrawlState).                              *)
(***************************************************************************)
\* the filter set crawl_state was called with
FilterSet == SetOf(DictGet(filter_zips_by_state, state_mapping[1][1], <<>>))

\* the first whole-word match of the ZIP pattern in the listing's address,
\* None when there is none
FirstZip(listing) ==
    LET matches == WholeWordMatches(DictGet(listing, "address", <<>>))
    IN  IF matches = <<>> THEN None ELSE matches[1]

\* the listing passes the ZIP filter
PassesFilter(listing) ==
    \/ FilterSet = {}
    \/ FirstZip(listing) # None /\ FirstZip(listing) \in FilterSet

\* the places, in listing order, of the listings that passed the filter
PassedPlaces == Sorted({i \in 1..Len(site.pages) : PassesFilter(site.pages[i].listing)})

\* the listing as the filter loop leaves it: with its zip_code when one
\* was found
WithZip(listing) ==
    IF FirstZip(listing) # None THEN Put(listing, "zip_code", FirstZip(listing))
    ELSE listing

\* the record a filtered listing must give: merged with the first detail
\* record on a detail success that has one, the listing otherwise
RecordOf(page) ==
    IF /\ DictGet(page.listing, "url", <<>>) # <<>>
       /\ page.detail.kind = "ok"
       /\ page.detail.data # <<>>
    THEN Update(WithZip(page.listing), page.detail.data[1])
    ELSE WithZip(page.listing)

\* C21: when the listing page was fetched and parsed, crawl_state returns
\* exactly one record per listing that passed the ZIP filter, in listing
\* order, whatever the detail fetches did: the listing merged with the
\* first detail record on a detail success, the listing unchanged when it
\* has no detail URL, when the detail fetch did not succeed or raised (or
\* succeeded without a record).  None is dropped, none is there twice.
C21_OneRecordPerFilteredListing ==
    (crawl_pc = "crawled" /\ site.kind = "ok") =>
        /\ Len(dispensaries) = Len(PassedPlaces)
        /\ \A k \in 1..Len(PassedPlaces) :
              dispensaries[k] = RecordOf(site.pages[PassedPlaces[k]])

\* C21 witness: of two listings the filter dropped the first and kept the
\* second, whose detail fetch raised: its record is the listing.
C21_Witness ==
    /\ crawl_pc = "crawled"
    /\ site.kind = "ok"
    /\ FilterSet # {}
    /\ Len(site.pages) = 2
    /\ ~PassesFilter(site.pages[1].listing)
    /\ site.pages[2].detail.kind = "raises"
    /\ dispensaries = <<WithZip(site.pages[2].listing)>>

\* C22: with a non-empty ZIP filter every record crawl_state returns (the
\* list crawl_and_save writes for that state) carries a zip_code field: the
\* first whole-word 5-digit or ZIP+4 match of its listing's address, which
\* is a member of the filter set as the very same string.  With an empty
\* filter every listing is kept, with a zip_code field exactly when its
\* address holds a match.
C22_RecordsCarryFilterZip ==
    crawl_pc = "crawled" =>
        /\ FilterSet # {} =>
              \A k \in 1..Len(dispensaries) :
                 /\ k <= Len(PassedPlaces)
                 /\ "zip_code" \in DOMAIN dispensaries[k]
                 /\ dispensaries[k]["zip_code"] =
                       FirstZip(site.pages[PassedPlaces[k]].listing)
                 /\ dispensaries[k]["zip_code"] \in FilterSet
        /\ (FilterSet = {} /\ site.kind = "ok") =>
              /\ Len(dispensaries) = Len(site.pages)
              /\ \A k \in 1..Len(site.pages) :
                    IF FirstZip(site.pages[k].listing) # None
                    THEN /\ "zip_code" \in DOMAIN dispensaries[k]
                         /\ dispensaries[k]["zip_code"] = FirstZip(site.pages[k].listing)
                    ELSE "zip_code" \notin DOMAIN dispensaries[k]

\* C22 witness: under a non-empty filter a listing whose address holds a ZIP
\* of the filter after another ZIP was dropped, and a listing whose address
\* begins with the ZIP+4 form of the filter was kept with that zip_code.
C22_Witness ==
    /\ crawl_pc = "crawled"
    /\ site.kind = "ok"
    /\ FilterSet # {}
    /\ Len(site.pages) = 2
    /\ Len(WholeWordMatches(DictGet(site.pages[1].listing, "address", <<>>))) = 2
    /\ WholeWordMatches(DictGet(site.pages[1].listing, "address", <<>>))[2] \in FilterSet
    /\ Len(dispensaries) = 1
    /\ dispensaries[1]["zip_code"] = Z99501 \o Plus4

(***************************************************************************)
(* Claim about the status bar and the crawl threads (SpecGui).             *)
(***************************************************************************)
\* the crawl threads that were started and have not ended
CrawlsInProgress == {t \in 1..Len(threads) : threads[t].pc \in {"started", "crawling"}}

\* C23: for any interleaving of Run clicks and crawl threads, the status
\* bar reads "Ready" only when no crawl started by run_data_collection is
\* still in progress.
C23_ReadyOnlyWhenNoCrawlRuns ==
    status_var = "Ready" => CrawlsInProgress = {}
====
